---- MODULE Spec2Model ----
(***************************************************************************)
(* A model of winres (src/lib.rs): the WindowsResource descriptor, its     *)
(* mutators, the resource-file writer write_resource_file and the string   *)
(* escaping it uses, compile with its two toolkits, the toolkit discovery  *)
(* get_sdk and win_sdk_inlcude_root.                                       *)
(*                                                                         *)
(* Representation.                                                         *)
(*  - A Rust String is a sequence of characters; a character is a         *)
(*    one-character TLA+ string.  An element that is a longer TLA+ string  *)
(*    ("FileVersion") stands for a run of ordinary characters (no quote,   *)
(*    backslash, whitespace or control character), which every operation   *)
(*    of the program treats as a unit.                                     *)
(*  - Option<T> is a sequence of length 0 (None) or 1 (Some).              *)
(*  - A u64 is held as four base-2^16 digits, least significant first,     *)
(*    because its values exceed the range of TLC's integers.               *)
(*  - Text written to a file is a TLA+ string built with \o.               *)
(*  - A call that panics has the result "panic": it does not return.       *)
(***************************************************************************)
EXTENDS Integers, Sequences, FiniteSets, TLC

VARIABLES
    toolkit_path, properties, props_seed, version_info, version_seed,
    rc_file, icons, language, manifest, manifest_file, output_directory,
    windres_path, ar_path, add_toolkit_include, append_rc_content,
    file, result, rendered_from,
    string, escaped,
    events, compiled,
    kits, compiler, include_root,
    env, steps

\* The fields of struct WindowsResource that hold configured values.
fields == <<toolkit_path, properties, version_info, rc_file, icons, language,
            manifest, manifest_file, output_directory, windres_path, ar_path,
            add_toolkit_include, append_rc_content>>

\* The state of one WindowsResource, hash seeds of its two maps included.
desc == <<fields, props_seed, version_seed>>

\* What the last call of compile did, and how it ended.
build == <<events, compiled>>

\* The last call of get_sdk and of win_sdk_inlcude_root: result, input, result.
probe == <<kits, compiler, include_root>>

vars == <<desc, file, result, rendered_from, string, escaped, build, probe, env, steps>>

(***************************************************************************)
(* Bounds of the model.                                                    *)
(***************************************************************************)
\* Longest input string given to escape_string.
MaxLen == 3
\* Longest second string an escaped string is compared against.
MaxOther == 2
\* Number of operations performed on one descriptor.
MaxSteps == 3
\* Largest hash seed a map is created with (seeds 0..MaxSeed).
MaxSeed == 1

(***************************************************************************)
(* Option and string helpers.                                              *)
(***************************************************************************)
None == <<>>
Some(x) == <<x>>

RECURSIVE Cat(_)
\* The text of a string: its characters, concatenated.
Cat(s) == IF s = <<>> THEN "" ELSE s[1] \o Cat(Tail(s))

RECURSIVE SeqSet(_, _)
\* All sequences over S of length at most n.
SeqSet(S, n) == IF n = 0 THEN {<<>>}
                ELSE LET shorter == SeqSet(S, n - 1)
                     IN  shorter \cup {Append(s, c) : s \in {t \in shorter : Len(t) = n - 1}, c \in S}

(***************************************************************************)
(* str::trim and str::lines.                                               *)
(***************************************************************************)
Whitespace == {" ", "\t", "\n", "\r"}

RECURSIVE TrimStart(_)
TrimStart(s) == IF s # <<>> /\ s[1] \in Whitespace THEN TrimStart(Tail(s)) ELSE s

RECURSIVE TrimEnd(_)
TrimEnd(s) == IF s # <<>> /\ s[Len(s)] \in Whitespace
              THEN TrimEnd(SubSeq(s, 1, Len(s) - 1)) ELSE s

\* str::trim
Trim(s) == TrimEnd(TrimStart(s))

RECURSIVE SplitLines(_, _)
\* The lines of s after the line `cur` being read; a last line needs no
\* line ending, and no empty line follows a final line ending.
SplitLines(s, cur) ==
    IF s = <<>> THEN (IF cur = <<>> THEN <<>> ELSE <<cur>>)
    ELSE IF s[1] = "\n"
         THEN <<IF cur # <<>> /\ cur[Len(cur)] = "\r"
                THEN SubSeq(cur, 1, Len(cur) - 1) ELSE cur>> \o SplitLines(Tail(s), <<>>)
    ELSE SplitLines(Tail(s), Append(cur, s[1]))

\* str::lines
Lines(s) == SplitLines(s, <<>>)

(***************************************************************************)
(* escape_string (src/lib.rs 805-822).                                     *)
(***************************************************************************)
\* escape_char without the arm for the backslash.
escape_char_NoBackslash(chr) ==
    CASE chr = "\"" -> <<"\"", "\"">>
      [] chr = "'"  -> <<"\\", "'">>
      [] chr = "\n" -> <<"\\", "n">>
      [] chr = "\t" -> <<"\\", "t">>
      [] chr = "\r" -> <<"\\", "r">>
      [] OTHER      -> <<chr>>

\* escape_char with the double quote escaped by a backslash and the single
\* quote doubled.
escape_char_SwappedQuotes(chr) ==
    CASE chr = "\"" -> <<"\\", "\"">>
      [] chr = "'"  -> <<"'", "'">>
      [] chr = "\\" -> <<"\\", "\\">>
      [] chr = "\n" -> <<"\\", "n">>
      [] chr = "\t" -> <<"\\", "t">>
      [] chr = "\r" -> <<"\\", "r">>
      [] OTHER      -> <<chr>>

\* The match on one character: what is pushed onto `escaped`.
escape_char(chr) ==
    CASE chr = "\"" -> <<"\"", "\"">>
      [] chr = "'"  -> <<"\\", "'">>
      [] chr = "\\" -> <<"\\", "\\">>
      [] chr = "\n" -> <<"\\", "n">>
      [] chr = "\t" -> <<"\\", "t">>
      [] chr = "\r" -> <<"\\", "r">>
      [] OTHER      -> <<chr>>

RECURSIVE escape_loop(_, _)
\* The for loop over string.chars(), with the accumulator `escaped`.
escape_loop(chars, acc) ==
    IF chars = <<>> THEN acc
    ELSE escape_loop(Tail(chars), acc \o escape_char(chars[1]))

escape_string(s) == escape_loop(s, <<>>)

RECURSIVE unescape(_)
\* The resource format's reading of a quoted string: "" is a double quote,
\* backslash followed by \ ' n t r is that character, anything else is itself.
unescape(s) ==
    IF s = <<>> THEN <<>>
    ELSE IF Len(s) >= 2 /\ s[1] = "\"" /\ s[2] = "\""
         THEN <<"\"">> \o unescape(SubSeq(s, 3, Len(s)))
    ELSE IF Len(s) >= 2 /\ s[1] = "\\" /\ s[2] \in {"\\", "'", "n", "t", "r"}
         THEN <<CASE s[2] = "\\" -> "\\"
                  [] s[2] = "'"  -> "'"
                  [] s[2] = "n"  -> "\n"
                  [] s[2] = "t"  -> "\t"
                  [] s[2] = "r"  -> "\r">> \o unescape(SubSeq(s, 3, Len(s)))
    ELSE <<s[1]>> \o unescape(Tail(s))

(***************************************************************************)
(* Numbers: u16, u64 and their formatting.                                 *)
(***************************************************************************)
\* 2^16: the range of a u16, `as u16` keeps a value modulo it.
Word == 65536

Pow2(n) == CASE n = 0 -> 1 [] n = 1 -> 2 [] n = 2 -> 4 [] n = 3 -> 8
             [] n = 4 -> 16 [] n = 5 -> 32 [] n = 6 -> 64 [] n = 7 -> 128
             [] n = 8 -> 256 [] n = 9 -> 512 [] n = 10 -> 1024 [] n = 11 -> 2048
             [] n = 12 -> 4096 [] n = 13 -> 8192 [] n = 14 -> 16384
             [] n = 15 -> 32768 [] n = 16 -> 65536

\* A u64 from its four 16-bit words, most significant first (as one writes
\* 0x0001_0002_0003_0004).
U64(a, b, c, d) == <<d, c, b, a>>

\* A u64 from a natural number below 2^31.
U64FromNat(n) == <<n % Word, (n \div Word) % Word, 0, 0>>

U64Zero == <<0, 0, 0, 0>>

\* Digit i (1 = least significant) of v, 0 outside 1..4.
Limb(v, i) == IF i \in 1..4 THEN v[i] ELSE 0

\* v << n in u64: bits shifted past bit 63 are dropped.
Shl(v, n) ==
    LET k == n \div 16
        b == n % 16
    IN  [i \in 1..4 |->
            ((Limb(v, i - k) * Pow2(b)) % Word) + (Limb(v, i - k - 1) \div Pow2(16 - b))]

\* v >> n in u64.
Shr(v, n) ==
    LET k == n \div 16
        b == n % 16
    IN  [i \in 1..4 |->
            (Limb(v, i + k) \div Pow2(b)) + ((Limb(v, i + k + 1) % Pow2(b)) * Pow2(16 - b))]

RECURSIVE BitOrNat(_, _)
BitOrNat(a, b) ==
    IF a = 0 THEN b
    ELSE IF b = 0 THEN a
    ELSE (IF a % 2 = 1 \/ b % 2 = 1 THEN 1 ELSE 0) + 2 * BitOrNat(a \div 2, b \div 2)

\* a | b in u64.
BitOr(a, b) == [i \in 1..4 |-> BitOrNat(a[i], b[i])]

\* v as u16.
AsU16(v) == v[1]

Digits == <<"0", "1", "2", "3", "4", "5", "6", "7", "8", "9",
            "a", "b", "c", "d", "e", "f">>

RECURSIVE NatDigits(_, _)
\* The digits of the natural number n in the given base, no leading zero.
NatDigits(n, base) ==
    IF n < base THEN <<Digits[n + 1]>>
    ELSE Append(NatDigits(n \div base, base), Digits[(n % base) + 1])

\* Long division of a u64 by a small number.
U64Rem4(v, base) == v[4] % base
U64Rem3(v, base) == (U64Rem4(v, base) * Word + v[3]) % base
U64Rem2(v, base) == (U64Rem3(v, base) * Word + v[2]) % base
U64Rem(v, base)  == (U64Rem2(v, base) * Word + v[1]) % base
U64Div(v, base) ==
    << (U64Rem2(v, base) * Word + v[1]) \div base,
       (U64Rem3(v, base) * Word + v[2]) \div base,
       (U64Rem4(v, base) * Word + v[3]) \div base,
       v[4] \div base >>

RECURSIVE U64Digits(_, _)
\* The digits of a u64 in the given base, no leading zero.
U64Digits(v, base) ==
    IF U64Div(v, base) = U64Zero THEN <<Digits[U64Rem(v, base) + 1]>>
    ELSE Append(U64Digits(U64Div(v, base), base), Digits[U64Rem(v, base) + 1])

RECURSIVE ZeroPad(_, _)
ZeroPad(ds, width) == IF Len(ds) >= width THEN ds ELSE ZeroPad(<<"0">> \o ds, width)

\* format!("{}", n) for a u16.
FmtDecU16(n) == Cat(NatDigits(n, 10))
\* format!("{}", v) for a u64.
FmtDecU64(v) == Cat(U64Digits(v, 10))
\* format!("{:#x}", v) for a u64.
FmtHexAltU64(v) == "0x" \o Cat(U64Digits(v, 16))
\* format!("{:#x}", n) for a u16.
FmtHexAltU16(n) == "0x" \o Cat(NatDigits(n, 16))
\* format!("{:04x}", n) for a u16.
FmtHex04U16(n) == Cat(ZeroPad(NatDigits(n, 16), 4))

(***************************************************************************)
(* HashMap<K, V> (properties, version_info): a function on the keys held,  *)
(* iterated in an order fixed by the key set and the map's hash seed.      *)
(***************************************************************************)
\* HashMap::insert: the key is added or its value replaced.
Insert(m, key, value) ==
    [k \in (DOMAIN m) \cup {key} |-> IF k = key THEN value ELSE m[k]]

EmptyMap == [k \in {} |-> 0]

RECURSIVE BucketOrder(_)
\* The keys in bucket order under seed 0: some fixed order of the key set.
BucketOrder(keys) ==
    IF keys = {} THEN <<>>
    ELSE LET k == CHOOSE x \in keys : TRUE
         IN  <<k>> \o BucketOrder(keys \ {k})

Rotate(s, n) ==
    IF s = <<>> THEN s
    ELSE LET r == n % Len(s)
         IN  SubSeq(s, r + 1, Len(s)) \o SubSeq(s, 1, r)

\* HashMap::iter: the order in which the entries of m are visited.  It depends
\* on the seed the map was created with (RandomState), not on the values.
IterOrder(m, seed) == Rotate(BucketOrder(DOMAIN m), seed)

(***************************************************************************)
(* std::path on the host the build script runs on ("unix" or "windows").   *)
(* A path is a string in which every separator is an element of its own.   *)
(***************************************************************************)
Separators(host) == IF host = "unix" THEN {"/"} ELSE {"\\", "/"}
MainSeparator(host) == IF host = "unix" THEN "/" ELSE "\\"

\* The drive prefixes of the model (windows only).
Drives == {"C:", "D:"}

\* The prefix of a path: its drive, on windows.
Prefix(p, host) == IF host = "windows" /\ p # <<>> /\ p[1] \in Drives THEN <<p[1]>> ELSE <<>>

\* Path::has_root: a separator follows the prefix.
HasRoot(p, host) ==
    LET rest == SubSeq(p, Len(Prefix(p, host)) + 1, Len(p))
    IN  rest # <<>> /\ rest[1] \in Separators(host)

RECURSIVE Normals(_, _, _)
\* The normal components of p after the component `cur` being read: the
\* maximal runs without a separator.
Normals(p, cur, host) ==
    IF p = <<>> THEN (IF cur = <<>> THEN <<>> ELSE <<cur>>)
    ELSE IF p[1] \in Separators(host)
         THEN (IF cur = <<>> THEN <<>> ELSE <<cur>>) \o Normals(Tail(p), <<>>, host)
    ELSE Normals(Tail(p), Append(cur, p[1]), host)

\* Path::iter: the prefix, the root directory, then the normal components.
PathIter(p, host) ==
    (IF Prefix(p, host) # <<>> THEN <<Prefix(p, host)>> ELSE <<>>)
    \o (IF HasRoot(p, host) THEN <<<<MainSeparator(host)>>>> ELSE <<>>)
    \o Normals(SubSeq(p, Len(Prefix(p, host)) + 1, Len(p)), <<>>, host)

\* PathBuf::push: a path with a prefix replaces buf, a rooted path replaces
\* all but the prefix of buf, any other path is appended, after a separator
\* unless buf is empty, ends with one or is a drive alone.
PathPush(buf, p, host) ==
    IF Prefix(p, host) # <<>> \/ (host = "unix" /\ HasRoot(p, host)) THEN p
    ELSE IF HasRoot(p, host) THEN Prefix(buf, host) \o p
    ELSE IF buf = <<>> \/ buf[Len(buf)] \in Separators(host)
              \/ (Prefix(buf, host) # <<>> /\ Len(buf) = 1)
         THEN buf \o p
    ELSE buf \o <<MainSeparator(host)>> \o p

\* Path::join
Join(buf, p, host) == PathPush(buf, p, host)

RECURSIVE DropLast(_, _, _)
\* p without its trailing elements that are (sep) or are not (~ sep) separators.
DropLast(p, sep, host) ==
    IF p # <<>> /\ ((p[Len(p)] \in Separators(host)) = sep)
    THEN DropLast(SubSeq(p, 1, Len(p) - 1), sep, host) ELSE p

\* Path::parent of a path that ends with a normal component below a directory.
Parent(p, host) == DropLast(DropLast(DropLast(p, TRUE, host), FALSE, host), TRUE, host)

\* Two paths name the same file when their components are the same.
SamePath(p, q, host) == PathIter(p, host) = PathIter(q, host)

(***************************************************************************)
(* The build environment new() reads.                                      *)
(***************************************************************************)
\* enum VersionInfo, in declaration order.
VersionInfo == <<"FILEVERSION", "PRODUCTVERSION", "FILEOS", "FILETYPE",
                 "FILESUBTYPE", "FILEFLAGSMASK", "FILEFLAGS">>

FileVersion     == <<"FileVersion">>
ProductVersion  == <<"ProductVersion">>
ProductName     == <<"ProductName">>
FileDescription == <<"FileDescription">>

\* An environment: cargo's variables, the [package.metadata.winres] table of
\* Cargo.toml (key -> [is_str, val]), the configuration the build script is
\* compiled for (target: "unix", "windows" or, windows with target_env
\* "msvc", "msvc"; arch) and what get_sdk reads: the output of the registry
\* query (None = the query fails), the paths at which an rc.exe exists and
\* the directories that can be listed, with their entries in listing order.
Env(name, version, major, minor, patch, winres, out_dir, target, reg) ==
    [CARGO_PKG_NAME |-> name, CARGO_PKG_VERSION |-> version,
     CARGO_PKG_DESCRIPTION |-> <<>>,
     CARGO_PKG_VERSION_MAJOR |-> major, CARGO_PKG_VERSION_MINOR |-> minor,
     CARGO_PKG_VERSION_PATCH |-> patch, winres |-> winres,
     CARGO_MANIFEST_DIR |-> <<"pkg">>,
     CARGO_CFG_TARGET_ENV |-> IF target = "msvc" THEN "msvc" ELSE "gnu",
     OUT_DIR |-> out_dir, target |-> target, arch |-> "x86_64",
     reg |-> reg, rc_exe |-> {}, dirs |-> EmptyMap]

\* The host the build script runs on.
Host(e) == IF e.target = "unix" THEN "unix" ELSE "windows"

\* A unix host cross-compiling package demo 1.0.0, no metadata section.
DemoEnv == Env(<<"demo">>, <<"1.0.0">>, 1, 0, 0, EmptyMap, Some(<<"out">>), "unix", None)

RECURSIVE overlay(_, _, _)
\* The loop of parse_cargo_toml over the table's entries.
overlay(props, table, keys) ==
    IF keys = <<>> THEN props
    ELSE LET k == keys[1]
         IN  overlay(IF table[k].is_str THEN Insert(props, k, table[k].val) ELSE props,
                     table, Tail(keys))

\* parse_cargo_toml: string entries of the winres table are inserted.
parse_cargo_toml(props, table) == overlay(props, table, BucketOrder(DOMAIN table))

\* pack_version with the patch component not shifted.
pack_version_NoShift(major, minor, patch) ==
    BitOr(BitOr(BitOr(U64Zero, Shl(U64FromNat(major), 48)),
                Shl(U64FromNat(minor), 32)),
          U64FromNat(patch))

\* The packing of the version in new(): each component is parsed as a u64,
\* shifted and or-ed into version.
pack_version(major, minor, patch) ==
    BitOr(BitOr(BitOr(U64Zero, Shl(U64FromNat(major), 48)),
                Shl(U64FromNat(minor), 32)),
          Shl(U64FromNat(patch), 16))

\* The seven inserts into ver.
default_version_info(version) ==
    [k \in {VersionInfo[i] : i \in 1..Len(VersionInfo)} |->
        CASE k = "FILEVERSION"    -> version
          [] k = "PRODUCTVERSION" -> version
          [] k = "FILEOS"         -> U64(0, 0, 4, 4)
          [] k = "FILETYPE"       -> U64(0, 0, 0, 1)
          [] k = "FILESUBTYPE"    -> U64Zero
          [] k = "FILEFLAGSMASK"  -> U64(0, 0, 0, 63)
          [] k = "FILEFLAGS"      -> U64Zero]

\* The four inserts into props.
default_properties(e) ==
    Insert(Insert(Insert(Insert(EmptyMap,
        FileVersion, e.CARGO_PKG_VERSION),
        ProductVersion, e.CARGO_PKG_VERSION),
        ProductName, e.CARGO_PKG_NAME),
        FileDescription, e.CARGO_PKG_NAME)

(***************************************************************************)
(* get_sdk (src/lib.rs 700-767).  A result is [status, value]: "Ok" with   *)
(* the value returned, "Err", or "panic" when the call does not return.    *)
(***************************************************************************)
Ok(v) == [status |-> "Ok", value |-> v]
Err == [status |-> "Err", value |-> <<>>]
Panic == [status |-> "panic", value |-> <<>>]

Reverse(s) == [i \in 1..Len(s) |-> s[Len(s) + 1 - i]]

\* s.starts_with(prefix)
StartsWith(s, prefix) ==
    Len(s) >= Len(prefix) /\ SubSeq(s, 1, Len(prefix)) = prefix

\* line.find("REG_SZ"): the index of its first occurrence, None without one.
FindRegSz(line) ==
    IF \E i \in 1..Len(line) : line[i] = "REG_SZ"
    THEN Some(CHOOSE i \in 1..Len(line) :
                 line[i] = "REG_SZ" /\ \A j \in 1..(i - 1) : line[j] # "REG_SZ")
    ELSE None

\* line.trim().starts_with("KitsRoot")
is_kits_line(line) == StartsWith(Trim(line), <<"KitsRoot">>)

\* The kit of a KitsRoot line: what follows REG_SZ and the whitespace after it.
kit_of(line) == TrimStart(SubSeq(line, FindRegSz(line)[1] + 1, Len(line)))

\* x64 or x86, by cfg!(target_arch = "x86_64").
arch_dir(e) == IF e.arch = "x86_64" THEN <<"x64">> ELSE <<"x86">>

\* Path::exists for an rc.exe.
exists(e, f) == \E g \in e.rc_exe : SamePath(f, g, Host(e))

\* The directories pushed for one kit: bin\<arch> when rc.exe is in it, then
\* <entry>\<arch> for the entries of bin, in listing order, that hold rc.exe.
kit_dirs(e, kit) ==
    LET host == Host(e)
        rel == <<"bin", "\\">> \o arch_dir(e) \o <<"\\", "rc.exe">>
        rc == Join(kit, rel, host)
        bin == Join(kit, <<"bin">>, host)
        listed == IF \E d \in DOMAIN e.dirs : SamePath(d, bin, host)
                  THEN e.dirs[CHOOSE d \in DOMAIN e.dirs : SamePath(d, bin, host)]
                  ELSE <<>>
        entry(i) == Join(Join(bin, listed[i], host),
                         arch_dir(e) \o <<"\\", "rc.exe">>, host)
        found == SelectSeq([i \in 1..Len(listed) |-> entry(i)], LAMBDA f : exists(e, f))
    IN  (IF exists(e, rc) THEN <<Parent(rc, host)>> ELSE <<>>)
        \o [i \in 1..Len(found) |-> Parent(found[i], host)]

RECURSIVE kits_loop(_, _, _)
\* for line in lines, with the vector `found` built so far.
kits_loop(e, lines, found) ==
    IF lines = <<>> THEN Ok(found)
    ELSE IF is_kits_line(lines[1])
         THEN IF FindRegSz(lines[1]) = None THEN Panic
              ELSE kits_loop(e, Tail(lines), found \o kit_dirs(e, kit_of(lines[1])))
    ELSE kits_loop(e, Tail(lines), found)

get_sdk(e) ==
    IF e.reg = None THEN Err
    ELSE LET r == kits_loop(e, Reverse(Lines(e.reg[1])), <<>>)
         IN  IF r.status = "Ok" /\ r.value = <<>> THEN Err ELSE r

\* let sdk = ...: the last directory get_sdk found, or the root directory.
default_toolkit_path(e) ==
    IF e.target = "msvc"
    THEN IF get_sdk(e).status = "Ok"
         THEN get_sdk(e).value[Len(get_sdk(e).value)] ELSE <<>>
    ELSE IF e.target = "windows" THEN <<"\\">> ELSE <<"/">>

\* new() returns: get_sdk, when it is called, does not panic.
new_returns(e) == e.target = "msvc" => get_sdk(e).status # "panic"

\* WindowsResource::new: the descriptor it returns.
new(e, pseed, vseed) ==
    /\ new_returns(e)
    /\ env = e
    /\ toolkit_path = default_toolkit_path(e)
    /\ properties = parse_cargo_toml(default_properties(e), e.winres)
    /\ props_seed = pseed
    /\ version_info = default_version_info(
           pack_version(e.CARGO_PKG_VERSION_MAJOR, e.CARGO_PKG_VERSION_MINOR,
                        e.CARGO_PKG_VERSION_PATCH))
    /\ version_seed = vseed
    /\ rc_file = None
    /\ icons = <<>>
    /\ language = 0
    /\ manifest = None
    /\ manifest_file = None
    /\ output_directory = IF e.OUT_DIR # None THEN e.OUT_DIR[1] ELSE <<".">>
    /\ windres_path = IF e.target = "unix" THEN <<"windres">> ELSE <<"windres.exe">>
    /\ ar_path = IF e.target = "unix" THEN <<"ar">> ELSE <<"ar.exe">>
    /\ add_toolkit_include = FALSE
    /\ append_rc_content = <<>>

\* Nothing written, nothing escaped, no operation performed yet.
Fresh ==
    /\ file = None
    /\ result = "none"
    /\ rendered_from = None
    /\ events = <<>>
    /\ compiled = "none"
    /\ steps = 0

\* No call made of escape_string, get_sdk or win_sdk_inlcude_root.
NoInput ==
    /\ string = <<>> /\ escaped = None
    /\ kits = None
    /\ compiler = <<>> /\ include_root = None

(***************************************************************************)
(* The mutators.  Each is one call: it counts as a step of the descriptor. *)
(***************************************************************************)
Step == steps < MaxSteps /\ steps' = steps + 1

others == <<file, result, rendered_from, string, escaped, build, probe, env,
            props_seed, version_seed>>

set(name, value) ==
    /\ Step
    /\ properties' = Insert(properties, name, value)
    /\ UNCHANGED <<toolkit_path, version_info, rc_file, icons, language, manifest,
                   manifest_file, output_directory, windres_path, ar_path,
                   add_toolkit_include, append_rc_content, others>>

set_toolkit_path(path) ==
    /\ Step
    /\ toolkit_path' = path
    /\ UNCHANGED <<properties, version_info, rc_file, icons, language, manifest,
                   manifest_file, output_directory, windres_path, ar_path,
                   add_toolkit_include, append_rc_content, others>>

set_language(l) ==
    /\ Step
    /\ language' = l
    /\ UNCHANGED <<toolkit_path, properties, version_info, rc_file, icons, manifest,
                   manifest_file, output_directory, windres_path, ar_path,
                   add_toolkit_include, append_rc_content, others>>

\* set_icon_with_id replacing the icon that has the name id already.
set_icon_with_id_Replace(path, name_id) ==
    /\ Step
    /\ icons' = IF \E i \in 1..Len(icons) : icons[i].name_id = name_id
                THEN [i \in 1..Len(icons) |->
                        IF icons[i].name_id = name_id
                        THEN [path |-> path, name_id |-> name_id] ELSE icons[i]]
                ELSE Append(icons, [path |-> path, name_id |-> name_id])
    /\ UNCHANGED <<toolkit_path, properties, version_info, rc_file, language, manifest,
                   manifest_file, output_directory, windres_path, ar_path,
                   add_toolkit_include, append_rc_content, others>>

set_icon_with_id(path, name_id) ==
    /\ Step
    /\ icons' = Append(icons, [path |-> path, name_id |-> name_id])
    /\ UNCHANGED <<toolkit_path, properties, version_info, rc_file, language, manifest,
                   manifest_file, output_directory, windres_path, ar_path,
                   add_toolkit_include, append_rc_content, others>>

set_icon(path) == set_icon_with_id(path, <<"1">>)

\* set_version_info keeping no field but the one it sets.
set_version_info_Only(field, value) ==
    /\ Step
    /\ version_info' = Insert(EmptyMap, field, value)
    /\ UNCHANGED <<toolkit_path, properties, rc_file, icons, language, manifest,
                   manifest_file, output_directory, windres_path, ar_path,
                   add_toolkit_include, append_rc_content, others>>

set_version_info(field, value) ==
    /\ Step
    /\ version_info' = Insert(version_info, field, value)
    /\ UNCHANGED <<toolkit_path, properties, rc_file, icons, language, manifest,
                   manifest_file, output_directory, windres_path, ar_path,
                   add_toolkit_include, append_rc_content, others>>

\* set_manifest without the assignment to manifest_file.
set_manifest_KeepFile(m) ==
    /\ Step
    /\ manifest' = Some(m)
    /\ UNCHANGED <<toolkit_path, properties, version_info, rc_file, icons, language,
                   manifest_file, output_directory, windres_path, ar_path,
                   add_toolkit_include, append_rc_content, others>>

set_manifest(m) ==
    /\ Step
    /\ manifest_file' = None
    /\ manifest' = Some(m)
    /\ UNCHANGED <<toolkit_path, properties, version_info, rc_file, icons, language,
                   output_directory, windres_path, ar_path,
                   add_toolkit_include, append_rc_content, others>>

\* set_manifest_file without the assignment to manifest.
set_manifest_file_KeepInline(f) ==
    /\ Step
    /\ manifest_file' = Some(f)
    /\ UNCHANGED <<toolkit_path, properties, version_info, rc_file, icons, language,
                   manifest, output_directory, windres_path, ar_path,
                   add_toolkit_include, append_rc_content, others>>

set_manifest_file(f) ==
    /\ Step
    /\ manifest_file' = Some(f)
    /\ manifest' = None
    /\ UNCHANGED <<toolkit_path, properties, version_info, rc_file, icons, language,
                   output_directory, windres_path, ar_path,
                   add_toolkit_include, append_rc_content, others>>

set_windres_path(path) ==
    /\ Step
    /\ windres_path' = path
    /\ UNCHANGED <<toolkit_path, properties, version_info, rc_file, icons, language,
                   manifest, manifest_file, output_directory, ar_path,
                   add_toolkit_include, append_rc_content, others>>

set_ar_path(path) ==
    /\ Step
    /\ ar_path' = path
    /\ UNCHANGED <<toolkit_path, properties, version_info, rc_file, icons, language,
                   manifest, manifest_file, output_directory, windres_path,
                   add_toolkit_include, append_rc_content, others>>

\* WindowsResource::add_toolkit_include (the field has the method's name).
call_add_toolkit_include(add) ==
    /\ Step
    /\ add_toolkit_include' = add
    /\ UNCHANGED <<toolkit_path, properties, version_info, rc_file, icons, language,
                   manifest, manifest_file, output_directory, windres_path, ar_path,
                   append_rc_content, others>>

set_resource_file(path) ==
    /\ Step
    /\ rc_file' = Some(path)
    /\ UNCHANGED <<toolkit_path, properties, version_info, icons, language,
                   manifest, manifest_file, output_directory, windres_path, ar_path,
                   add_toolkit_include, append_rc_content, others>>

\* WindowsResource::append_rc_content (the field has the method's name).
call_append_rc_content(content) ==
    /\ Step
    /\ append_rc_content' =
         (IF ~ (append_rc_content = <<>>
                \/ append_rc_content[Len(append_rc_content)] = "\n")
          THEN Append(append_rc_content, "\n") ELSE append_rc_content) \o content
    /\ UNCHANGED <<toolkit_path, properties, version_info, rc_file, icons, language,
                   manifest, manifest_file, output_directory, windres_path, ar_path,
                   add_toolkit_include, others>>

set_output_directory(path) ==
    /\ Step
    /\ output_directory' = path
    /\ UNCHANGED <<toolkit_path, properties, version_info, rc_file, icons, language,
                   manifest, manifest_file, windres_path, ar_path,
                   add_toolkit_include, append_rc_content, others>>

(***************************************************************************)
(* write_resource_file (src/lib.rs 462-522).  The file is the sequence of  *)
(* the writeln! calls made: each entry holds the call site (kind), the     *)
(* item it was made for (of) and the text written (a newline follows it).  *)
(***************************************************************************)
Chunk(kind, of, text) == [kind |-> kind, of |-> of, text |-> text]

\* The text of a file: what its writes wrote, in order.
Text(f) == [i \in 1..Len(f) |-> f[i].text]

\* version_line with the four words in the opposite order.
version_line_LowWordFirst(k, v) ==
    IF k \in {"FILEVERSION", "PRODUCTVERSION"}
    THEN k \o " " \o FmtDecU16(AsU16(v)) \o ", " \o FmtDecU16(AsU16(Shr(v, 16)))
           \o ", " \o FmtDecU16(AsU16(Shr(v, 32))) \o ", " \o FmtDecU16(AsU16(Shr(v, 48)))
    ELSE k \o " " \o FmtHexAltU64(v)

\* The match on a version field: the line written for it.
version_line(k, v) ==
    IF k \in {"FILEVERSION", "PRODUCTVERSION"}
    THEN k \o " " \o FmtDecU16(AsU16(Shr(v, 48))) \o ", " \o FmtDecU16(AsU16(Shr(v, 32)))
           \o ", " \o FmtDecU16(AsU16(Shr(v, 16))) \o ", " \o FmtDecU16(AsU16(v))
    ELSE k \o " " \o FmtHexAltU64(v)

\* for (k, v) in self.version_info.iter()
version_lines ==
    LET order == IterOrder(version_info, version_seed)
    IN  [i \in 1..Len(order) |->
            Chunk("version", <<order[i]>>, version_line(order[i], version_info[order[i]]))]

\* block_key with {:x} in place of {:04x}.
block_key_Unpadded(l) == "{\nBLOCK \"" \o Cat(NatDigits(l, 16)) \o "04b0\"\n{"

\* writeln!(f, "{{\nBLOCK \"{:04x}04b0\"\n{{", self.language)
block_key(l) == "{\nBLOCK \"" \o FmtHex04U16(l) \o "04b0\"\n{"

\* writeln!(f, "VALUE \"Translation\", {:#x}, 0x04b0", self.language)
translation(l) == "VALUE \"Translation\", " \o FmtHexAltU16(l) \o ", 0x04b0"

\* value_wanted without the test.
value_wanted_Always(v) == TRUE

\* if !v.is_empty()
value_wanted(v) == v # <<>>

\* for (k, v) in self.properties.iter(): one VALUE line per non-empty value.
value_lines ==
    LET order == SelectSeq(IterOrder(properties, props_seed),
                           LAMBDA k : value_wanted(properties[k]))
    IN  [i \in 1..Len(order) |->
            Chunk("value", order[i],
                  "VALUE \"" \o Cat(escape_string(order[i])) \o "\", \""
                     \o Cat(escape_string(properties[order[i]])) \o "\"")]

\* for icon in &self.icons
icon_lines ==
    [i \in 1..Len(icons) |->
        Chunk("icon", icons[i].name_id,
              Cat(escape_string(icons[i].name_id)) \o " ICON \""
                 \o Cat(escape_string(icons[i].path)) \o "\"")]

\* The manifest entry: typed by FILETYPE, inline text before file reference.
manifest_lines ==
    IF "FILETYPE" \in DOMAIN version_info
    THEN LET e == FmtDecU64(version_info["FILETYPE"])
         IN  IF manifest # None
             THEN LET ls == Lines(manifest[1])
                  IN  <<Chunk("manifest", <<>>, e \o " 24"), Chunk("manifest_open", <<>>, "{")>>
                      \o [i \in 1..Len(ls) |->
                            Chunk("manifest_line", <<>>,
                                  "\" " \o Cat(escape_string(Trim(ls[i]))) \o " \"")]
                      \o <<Chunk("manifest_close", <<>>, "}")>>
             ELSE IF manifest_file # None
             THEN <<Chunk("manifest_file", <<>>,
                          e \o " 24 \"" \o Cat(escape_string(manifest_file[1])) \o "\"")>>
             ELSE <<>>
    ELSE <<>>

\* Everything write_resource_file writes when no write fails.
rendering ==
    <<Chunk("pragma", <<>>, "#pragma code_page(65001)"),
      Chunk("versioninfo", <<>>, "1 VERSIONINFO")>>
    \o version_lines
    \o <<Chunk("string_file_info", <<>>, "{\nBLOCK \"StringFileInfo\""),
         Chunk("block_key", <<>>, block_key(language))>>
    \o value_lines
    \o <<Chunk("string_file_info_end", <<>>, "}\n}"),
         Chunk("var_file_info", <<>>, "BLOCK \"VarFileInfo\" {"),
         Chunk("translation", <<>>, translation(language)),
         Chunk("var_file_info_end", <<>>, "}\n}")>>
    \o icon_lines
    \o manifest_lines
    \o <<Chunk("append", <<>>, Cat(append_rc_content))>>

\* The body of write_resource_file.  fail_at is what the file system does: None, nothing
\* fails; Some(0), File::create fails and nothing is written; Some(n), the
\* n-th writeln! fails and the file keeps the n - 1 writes before it (a call
\* that makes fewer than n writes succeeds).
write(fail_at) ==
    /\ IF fail_at = None \/ (fail_at # None /\ fail_at[1] > Len(rendering))
       THEN /\ file' = Some(rendering)
            /\ result' = "Ok"
            /\ rendered_from' = Some(fields)
       ELSE IF fail_at[1] = 0
       THEN /\ result' = "Err"
            /\ UNCHANGED <<file, rendered_from>>
       ELSE /\ file' = Some(SubSeq(rendering, 1, fail_at[1] - 1))
            /\ result' = "Err"
            /\ rendered_from' = Some(fields)

\* A call of write_resource_file by the build script.
write_resource_file(fail_at) ==
    /\ Step
    /\ write(fail_at)
    /\ UNCHANGED <<desc, string, escaped, build, probe, env>>

\* File system behaviours: no failure, File::create fails, the third write fails.
IoOutcomes == {None, Some(0), Some(3)}

(***************************************************************************)
(* win_sdk_inlcude_root (src/lib.rs 824-841).                              *)
(***************************************************************************)
RECURSIVE include_loop(_, _, _)
\* while let Some(p) = iter.next(), with tools_path as built so far; the
\* unwrap of the component after bin panics when there is none.
include_loop(iter, tools_path, host) ==
    IF iter = <<>> THEN Ok(tools_path)
    ELSE IF iter[1] = <<"bin">>
         THEN IF Len(iter) = 1 THEN Panic
              ELSE LET version == iter[2]
                       include == PathPush(tools_path, <<"Include">>, host)
                   IN  Ok(IF StartsWith(version, <<"10.">>)
                          THEN PathPush(include, version, host) ELSE include)
    ELSE include_loop(Tail(iter), PathPush(tools_path, iter[1], host), host)

win_sdk_inlcude_root(p, host) == include_loop(PathIter(p, host), <<>>, host)

(***************************************************************************)
(* compile (src/lib.rs 581-696).  What a call does is the sequence of its  *)
(* events: the creation of resource.rc, the external commands launched     *)
(* (with how each ended) and the lines printed.                            *)
(***************************************************************************)
Event(kind, what, cwd, args, status) ==
    [kind |-> kind, what |-> what, cwd |-> cwd, args |-> args, status |-> status]

Created(f, ok) == Event("create", Cat(f), "", <<>>, IF ok THEN "ok" ELSE "err")
Spawned(program, cwd, args, status) == Event("spawn", Cat(program), Cat(cwd), args, status)
\* println!(format, args): the line is the format with each {} filled in.
Printed(format, args) == Event("println", format, "", args, "")

\* How an external command ends: it cannot be launched, it exits with a
\* non-zero status, it exits with status 0.
Outcomes == {"launch_err", "exit_fail", "exit_ok"}

\* status.success() taken to hold of every exit status.
success_Always(status) == TRUE

\* status.success()
success(status) == status = "exit_ok"

\* link_lines without the link-search line.
link_lines_LibOnly(output_dir, link_kind) ==
    <<Printed("cargo:rustc-link-lib=" \o link_kind \o "=resource", <<>>)>>

\* The two lines for cargo, printed last.
link_lines(output_dir, link_kind) ==
    <<Printed("cargo:rustc-link-search=native={}", <<Cat(output_dir)>>),
      Printed("cargo:rustc-link-lib=" \o link_kind \o "=resource", <<>>)>>

\* compile_with_toolkit_gnu: windres, then ar, then the lines for cargo.
compile_with_toolkit_gnu(input, output_dir, rc_out, ar_out) ==
    LET host == Host(env)
        output == Join(output_dir, <<"resource.o">>, host)
        libname == Join(output_dir, <<"libresource.a">>, host)
        windres == Spawned(windres_path, toolkit_path,
                           <<"-I" \o Cat(env.CARGO_MANIFEST_DIR), Cat(input), Cat(output)>>,
                           rc_out)
        ar == Spawned(ar_path, toolkit_path, <<"rsc", Cat(libname), Cat(output)>>, ar_out)
    IN  IF rc_out = "launch_err" \/ ~ success(rc_out)
        THEN [events |-> <<windres>>, result |-> "Err"]
        ELSE IF ar_out = "launch_err" \/ ~ success(ar_out)
        THEN [events |-> <<windres, ar>>, result |-> "Err"]
        ELSE [events |-> <<windres, ar>> \o link_lines(output_dir, "static"),
              result |-> "Ok"]

\* compile_with_toolkit_msvc: rc.exe, then the lines for cargo.
compile_with_toolkit_msvc(input, output_dir, rc_out) ==
    LET host == Host(env)
        direct == Join(toolkit_path, <<"rc.exe">>, host)
        rc_exe == IF ~ exists(env, direct)
                  THEN Join(toolkit_path,
                            <<"bin", "\\">> \o arch_dir(env) \o <<"\\", "rc.exe">>, host)
                  ELSE direct
        output == Join(output_dir, <<"resource.lib">>, host)
        root == win_sdk_inlcude_root(rc_exe, host)
        includes == IF add_toolkit_include
                    THEN <<"/I" \o Cat(Join(root.value, <<"um">>, host)),
                           "/I" \o Cat(Join(root.value, <<"shared">>, host))>>
                    ELSE <<>>
        before == <<Printed("Selected RC path: '{}'", <<Cat(rc_exe)>>)>>
                  \o (IF add_toolkit_include
                      THEN <<Printed("Adding toolkit include: {}", <<Cat(root.value)>>)>>
                      ELSE <<>>)
        rc == Spawned(rc_exe, <<>>,
                      <<"/I" \o Cat(env.CARGO_MANIFEST_DIR)>> \o includes
                         \o <<"/fo" \o Cat(output), Cat(input)>>,
                      rc_out)
        streams == <<Printed("RC Output:\n{}\n------", <<"">>),
                     Printed("RC Error:\n{}\n------", <<"">>)>>
    IN  IF add_toolkit_include /\ root.status = "panic"
        THEN [events |-> <<before[1]>>, result |-> "panic"]
        ELSE IF rc_out = "launch_err"
        THEN [events |-> before \o <<rc>>, result |-> "Err"]
        ELSE IF ~ success(rc_out)
        THEN [events |-> before \o <<rc>> \o streams, result |-> "Err"]
        ELSE [events |-> before \o <<rc>> \o streams \o link_lines(output_dir, "dylib"),
              result |-> "Ok"]

\* rc_is_written taken to hold whatever rc_file is.
rc_is_written_Always == TRUE

\* if self.rc_file.is_none(): compile writes the resource file itself.
rc_is_written == rc_file = None

\* toolkit_of with every identifier but "msvc" taken for "gnu".
toolkit_of_GnuByDefault(target_env) == IF target_env = "msvc" THEN "msvc" ELSE "gnu"

\* match target_env.as_str(): the toolkit compiled with, "none" for the
\* arm that returns the error.
toolkit_of(target_env) ==
    CASE target_env = "gnu"  -> "gnu"
      [] target_env = "msvc" -> "msvc"
      [] OTHER               -> "none"

\* The path compile writes the resource file to.
resource_rc == Join(output_directory, <<"resource.rc">>, Host(env))

\* compile.  fail_at is what the file system does when the resource file is
\* written, rc_out and ar_out how the resource compiler and ar end when
\* they are launched.
compile(fail_at, rc_out, ar_out) ==
    /\ Step
    /\ LET writes == rc_is_written
           written == fail_at = None \/ (fail_at # None /\ fail_at[1] > Len(rendering))
           created == IF writes
                      THEN <<Created(resource_rc, fail_at = None \/ fail_at # Some(0))>>
                      ELSE <<>>
           rc == IF rc_file # None THEN rc_file[1] ELSE resource_rc
           toolkit == toolkit_of(env.CARGO_CFG_TARGET_ENV)
           run == IF toolkit = "gnu"
                  THEN compile_with_toolkit_gnu(rc, output_directory, rc_out, ar_out)
                  ELSE IF toolkit = "msvc"
                  THEN compile_with_toolkit_msvc(rc, output_directory, rc_out)
                  ELSE [events |-> <<>>, result |-> "Err"]
       IN  /\ IF writes THEN write(fail_at) ELSE UNCHANGED <<file, result, rendered_from>>
           /\ IF writes /\ ~ written
              THEN events' = created /\ compiled' = "Err"
              ELSE events' = created \o run.events /\ compiled' = run.result
    /\ UNCHANGED <<desc, string, escaped, probe, env>>

(***************************************************************************)
(* Spec: every mutator and the writer, from the descriptor new() returns.  *)
(***************************************************************************)
Manifest1 == <<"<a>", "\n", " ", "<b", "\"", ">", " ">>

Init == \E ps \in 0..MaxSeed, vs \in 0..MaxSeed : new(DemoEnv, ps, vs) /\ Fresh /\ NoInput

Next ==
    \/ set(<<"Comments">>, <<"c">>)
    \/ set_toolkit_path(<<"/usr/x86_64-w64-mingw32/bin">>)
    \/ set_language(1033)
    \/ set_icon(<<"icon.ico">>)
    \/ set_icon_with_id(<<"icon2.ico">>, <<"2">>)
    \/ set_version_info("FILETYPE", U64(0, 0, 0, 2))
    \/ set_manifest(Manifest1)
    \/ set_manifest_file(<<"manifest.xml">>)
    \/ set_windres_path(<<"/usr/bin/x86_64-w64-mingw32-windres">>)
    \/ set_ar_path(<<"x86_64-w64-mingw32-ar">>)
    \/ call_add_toolkit_include(TRUE)
    \/ set_resource_file(<<"my.rc">>)
    \/ call_append_rc_content(<<"sample", " ", "MENU">>)
    \/ set_output_directory(<<".">>)
    \/ \E fail_at \in IoOutcomes : write_resource_file(fail_at)

Spec == Init /\ [][Next]_vars

(***************************************************************************)
(* C1, C2: the two manifest sources.                                       *)
(***************************************************************************)
SetsManifest == \E m \in {Manifest1} : set_manifest(m)
SetsManifestFile == \E f \in {<<"manifest.xml">>} : set_manifest_file(f)

\* The manifest entries of a file: the head of an inline manifest or the
\* line naming a manifest file.
ManifestEntries(f) == SelectSeq(f, LAMBDA c : c.kind \in {"manifest", "manifest_file"})

AtMostOneManifest == ~ (manifest # None /\ manifest_file # None)
ExactlyOneManifest == (manifest # None) # (manifest_file # None)

\* C1: at most one of the inline manifest and the manifest file path is set
\* in every state; set_manifest sets the inline manifest and clears the file
\* path, set_manifest_file sets the file path and clears the inline manifest,
\* no other operation changes either; a file written without failure holds at
\* most one manifest entry.
C1_AtMostOneManifest ==
    /\ AtMostOneManifest
    /\ [][ /\ AtMostOneManifest'
           /\ (result' = "Ok" => Len(ManifestEntries(file'[1])) <= 1)
           /\ (SetsManifest => manifest' = Some(Manifest1) /\ manifest_file' = None)
           /\ (SetsManifestFile => manifest_file' = Some(<<"manifest.xml">>) /\ manifest' = None)
           /\ (~ SetsManifest /\ ~ SetsManifestFile => UNCHANGED <<manifest, manifest_file>>)
         ]_vars

\* The file was written while the manifest file path was set (it holds that
\* one manifest entry), and set_manifest has since set the inline manifest
\* and cleared the path.
C1_Witness ==
    /\ result = "Ok"
    /\ Len(ManifestEntries(file[1])) = 1
    /\ ManifestEntries(file[1])[1].kind = "manifest_file"
    /\ ManifestEntries(file[1])[1].text = "1 24 \"manifest.xml\""
    /\ manifest = Some(Manifest1)
    /\ manifest_file = None

\* C2 as stated: exactly one of the two manifest sources is active in every
\* state.
C2_ExactlyOneManifest == ExactlyOneManifest

\* C2 as amended: neither manifest source is active in the descriptor new()
\* returns, and neither becomes active except by set_manifest or
\* set_manifest_file; after a call of either exactly one is active, and from
\* then on exactly one stays active.  At most one is active in every state.
C2_NoneThenExactlyOne ==
    /\ manifest = None /\ manifest_file = None
    /\ [][ /\ AtMostOneManifest'
           /\ (SetsManifest \/ SetsManifestFile => ExactlyOneManifest')
           /\ (ExactlyOneManifest => ExactlyOneManifest')
           /\ (~ SetsManifest /\ ~ SetsManifestFile /\ manifest = None /\ manifest_file = None
                 => manifest' = None /\ manifest_file' = None)
         ]_vars

\* A descriptor that was configured and written with no manifest source active.
C2_Witness ==
    /\ steps >= 2
    /\ result = "Ok"
    /\ manifest = None /\ manifest_file = None
    /\ ManifestEntries(file[1]) = <<>>

(***************************************************************************)
(* SpecEscape: escape_string applied to every string over EscAlphabet of   *)
(* length at most MaxLen.                                                  *)
(***************************************************************************)
\* The six characters escape_string rewrites and an ordinary one, the letter
\* that follows the backslash in the escape of a newline.
EscAlphabet == {"\"", "\\", "'", "\n", "\t", "\r", "n"}

call_escape_string ==
    /\ escaped = None
    /\ escaped' = Some(escape_string(string))
    /\ UNCHANGED <<desc, file, result, rendered_from, string, build, probe, env, steps>>

InitEscape ==
    /\ new(DemoEnv, 0, 0) /\ Fresh
    /\ string \in SeqSet(EscAlphabet, MaxLen)
    /\ escaped = None
    /\ kits = None
    /\ compiler = <<>> /\ include_root = None

NextEscape == call_escape_string

SpecEscape == InitEscape /\ [][NextEscape]_vars

RECURSIVE QuotesPaired(_)
\* Every double quote of s is one of two adjacent double quotes.
QuotesPaired(s) ==
    IF s = <<>> THEN TRUE
    ELSE IF s[1] = "\""
         THEN Len(s) >= 2 /\ s[2] = "\"" /\ QuotesPaired(SubSeq(s, 3, Len(s)))
    ELSE QuotesPaired(Tail(s))

\* C3: reading the escaped string by the resource format's rules gives the
\* input back; the escaped string holds no raw newline, tab or carriage
\* return and no unpaired double quote; no other string (of length at most
\* MaxOther) has the same escaped string.
C3_EscapeRoundTrip ==
    escaped # None =>
        /\ unescape(escaped[1]) = string
        /\ \A i \in 1..Len(escaped[1]) : escaped[1][i] \notin {"\n", "\t", "\r"}
        /\ QuotesPaired(escaped[1])
        /\ \A other \in SeqSet(EscAlphabet, MaxOther) :
               escape_string(other) = escaped[1] => other = string

\* A string with a backslash, a double quote and a newline has been escaped.
C3_Witness ==
    /\ string = <<"\\", "\"", "\n">>
    /\ escaped = Some(<<"\\", "\\", "\"", "\"", "\\", "n">>)

\* The image of one character under the escaping rule.
Image(c) ==
    IF c = "\"" THEN <<"\"", "\"">>
    ELSE IF c = "\\" THEN <<"\\", "\\">>
    ELSE IF c = "'" THEN <<"\\", "'">>
    ELSE IF c = "\n" THEN <<"\\", "n">>
    ELSE IF c = "\t" THEN <<"\\", "t">>
    ELSE IF c = "\r" THEN <<"\\", "r">>
    ELSE <<c>>

RECURSIVE Images(_)
\* The images of the characters of s, concatenated in order.
Images(s) == IF s = <<>> THEN <<>> ELSE Image(s[1]) \o Images(Tail(s))

\* C4: the escaped string is the concatenation, in order, of the images of
\* the input's characters; the empty string and a string without special
\* characters are unchanged (the cases of tests::string_escaping included).
C4_EscapePerCharacter ==
    /\ escaped # None => escaped[1] = Images(string)
    /\ escaped # None /\ (\A i \in 1..Len(string) : string[i] = "n") => escaped[1] = string
    /\ escape_string(<<>>) = <<>>
    /\ escape_string(<<"foo">>) = <<"foo">>
    /\ Cat(escape_string(<<"\"", "Hello", "\"">>)) = "\"\"Hello\"\""
    /\ Cat(escape_string(<<"C:", "\\", "Program", " ", "Files", "\\", "Foobar">>))
         = "C:\\\\Program Files\\\\Foobar"

\* A string with a single quote, an ordinary letter and a tab has been escaped.
C4_Witness ==
    /\ string = <<"'", "n", "\t">>
    /\ escaped = Some(<<"\\", "'", "n", "\\", "t">>)

(***************************************************************************)
(* SpecVersion: version fields set by set_version_info and written.        *)
(***************************************************************************)
\* 0x0001000200030004, 0xffff00008000ffff, 0x00000000000a0000
VersionValues == {U64(1, 2, 3, 4), U64(65535, 0, 32768, 65535), U64(0, 0, 10, 0)}

VersionFields == {"FILEVERSION", "PRODUCTVERSION", "FILEFLAGS"}

\* What the version fields held when the file was last written.
RenderedVersionInfo == rendered_from[1][3]

\* The lines written for version field k.
VersionLinesOf(f, k) == SelectSeq(f, LAMBDA c : c.kind = "version" /\ c.of = <<k>>)

InitVersion == \E vs \in 0..MaxSeed : new(DemoEnv, 0, vs) /\ Fresh /\ NoInput

NextVersion ==
    \/ \E k \in VersionFields, v \in VersionValues : set_version_info(k, v)
    \/ \E fail_at \in {None, Some(0)} : write_resource_file(fail_at)

SpecVersion == InitVersion /\ [][NextVersion]_vars

\* The four 16-bit words of a value of the model, highest first, in decimal.
ExpectedWords(v) ==
    CASE v = U64(1, 2, 3, 4)              -> "1, 2, 3, 4"
      [] v = U64(65535, 0, 32768, 65535)  -> "65535, 0, 32768, 65535"
      [] v = U64(0, 0, 10, 0)             -> "0, 0, 10, 0"
      [] v = U64(1, 0, 0, 0)              -> "1, 0, 0, 0"

\* The hexadecimal form of a value of the model.
ExpectedHex(v) ==
    CASE v = U64(1, 2, 3, 4)              -> "0x1000200030004"
      [] v = U64(65535, 0, 32768, 65535)  -> "0xffff00008000ffff"
      [] v = U64(0, 0, 10, 0)             -> "0xa0000"
      [] v = U64(0, 0, 4, 4)              -> "0x40004"
      [] v = U64(0, 0, 0, 1)              -> "0x1"
      [] v = U64(0, 0, 0, 63)             -> "0x3f"
      [] v = U64Zero                      -> "0x0"

\* C5: a file written without failure holds one line per version field;
\* the line of FILEVERSION and of PRODUCTVERSION gives the four 16-bit words
\* of the value, highest first, in decimal (0x0001000200030004: 1, 2, 3, 4);
\* the line of every other field gives the value in hexadecimal.
C5_VersionWords ==
    result = "Ok" =>
        \A k \in DOMAIN RenderedVersionInfo :
            LET v == RenderedVersionInfo[k]
                lines == VersionLinesOf(file[1], k)
            IN  /\ Len(lines) = 1
                /\ lines[1].text =
                     (IF k \in {"FILEVERSION", "PRODUCTVERSION"}
                      THEN k \o " " \o ExpectedWords(v)
                      ELSE k \o " " \o ExpectedHex(v))

\* A file written with FILEVERSION 0x0001000200030004 and FILEFLAGS
\* 0xffff00008000ffff.
C5_Witness ==
    /\ result = "Ok"
    /\ RenderedVersionInfo["FILEVERSION"] = U64(1, 2, 3, 4)
    /\ RenderedVersionInfo["FILEFLAGS"] = U64(65535, 0, 32768, 65535)
    /\ VersionLinesOf(file[1], "FILEVERSION")[1].text = "FILEVERSION 1, 2, 3, 4"
    /\ VersionLinesOf(file[1], "FILEFLAGS")[1].text = "FILEFLAGS 0xffff00008000ffff"

(***************************************************************************)
(* SpecPack: the version new() packs from cargo's version components,      *)
(* written as it is (FILEVERSION and PRODUCTVERSION are not set again).    *)
(***************************************************************************)
\* (major, minor, patch) of the package version.
Components ==
    {<<1, 0, 0>>, <<1, 2, 3>>, <<0, 0, 0>>, <<65535, 65535, 65535>>, <<10, 65535, 7>>,
     <<65536, 0, 0>>, <<65537, 2, 3>>, <<1, 65536, 0>>, <<1, 65537, 3>>, <<1, 2, 65536>>,
     <<0, 3, 70000>>, <<1, 131072, 0>>, <<70000, 70000, 70000>>, <<0, 0, 65536>>}

PackEnv(c) == Env(<<"demo">>, <<"v">>, c[1], c[2], c[3], EmptyMap, Some(<<"out">>), "unix", None)

InitPack ==
    \E c \in Components, vs \in 0..MaxSeed : new(PackEnv(c), 0, vs) /\ Fresh /\ NoInput

NextPack ==
    \/ \E v \in VersionValues : set_version_info("FILEFLAGS", v)
    \/ set_language(1033)
    \/ \E fail_at \in {None, Some(0)} : write_resource_file(fail_at)

SpecPack == InitPack /\ [][NextPack]_vars

\* The words major, minor, patch, 0 in decimal.
ComponentWords ==
    Cat(NatDigits(env.CARGO_PKG_VERSION_MAJOR, 10)) \o ", "
      \o Cat(NatDigits(env.CARGO_PKG_VERSION_MINOR, 10)) \o ", "
      \o Cat(NatDigits(env.CARGO_PKG_VERSION_PATCH, 10)) \o ", 0"

ComponentsFit ==
    /\ env.CARGO_PKG_VERSION_MAJOR <= 65535
    /\ env.CARGO_PKG_VERSION_MINOR <= 65535
    /\ env.CARGO_PKG_VERSION_PATCH <= 65535

\* C6: in a file written without failure, the FILEVERSION and PRODUCTVERSION
\* lines of the version packed by new() give the words major, minor, patch, 0
\* exactly when every component is at most 65535.
C6_PackLossless ==
    result = "Ok" =>
        \A k \in {"FILEVERSION", "PRODUCTVERSION"} :
            /\ Len(VersionLinesOf(file[1], k)) = 1
            /\ (VersionLinesOf(file[1], k)[1].text = k \o " " \o ComponentWords) = ComponentsFit

\* A written file of version 1.65537.3, whose minor component spills into the
\* major word: the line reads 1, 1, 3, 0.
C6_Witness ==
    /\ result = "Ok"
    /\ env.CARGO_PKG_VERSION_MAJOR = 1
    /\ env.CARGO_PKG_VERSION_MINOR = 65537
    /\ env.CARGO_PKG_VERSION_PATCH = 3
    /\ VersionLinesOf(file[1], "FILEVERSION")[1].text = "FILEVERSION 1, 1, 3, 0"

(***************************************************************************)
(* SpecLanguage: set_language and the two lines written from the language. *)
(***************************************************************************)
\* 0x0000, 0x0009, 0x007e, 0x0409, 0x0c07, 0x1000, 0xffff
Languages == {0, 9, 126, 1033, 3079, 4096, 65535}

InitLanguage == \E ps \in 0..MaxSeed : new(DemoEnv, ps, 0) /\ Fresh /\ NoInput

NextLanguage ==
    \/ \E l \in Languages : set_language(l)
    \/ \E fail_at \in IoOutcomes : write_resource_file(fail_at)

SpecLanguage == InitLanguage /\ [][NextLanguage]_vars

\* The language the file was last written with.
RenderedLanguage == rendered_from[1][6]

\* A language of the model in exactly four lower-case hexadecimal digits.
ExpectedHex4(l) ==
    CASE l = 0 -> "0000" [] l = 9 -> "0009" [] l = 126 -> "007e" [] l = 1033 -> "0409"
      [] l = 3079 -> "0c07" [] l = 4096 -> "1000" [] l = 65535 -> "ffff"

\* A language of the model in 0x-prefixed hexadecimal without padding.
ExpectedHexAlt(l) ==
    CASE l = 0 -> "0x0" [] l = 9 -> "0x9" [] l = 126 -> "0x7e" [] l = 1033 -> "0x409"
      [] l = 3079 -> "0xc07" [] l = 4096 -> "0x1000" [] l = 65535 -> "0xffff"

LinesOfKind(f, kind) == SelectSeq(f, LAMBDA c : c.kind = kind)

\* The string-table block key of a written file is the language in four
\* hexadecimal digits followed by 04b0.
BlockKeyAsClaimed ==
    /\ Len(LinesOfKind(file[1], "block_key")) = 1
    /\ LinesOfKind(file[1], "block_key")[1].text
         = "{\nBLOCK \"" \o ExpectedHex4(RenderedLanguage) \o "04b0\"\n{"

\* C7 as stated: the block key is the language in four hexadecimal digits
\* followed by 04b0, and the translation line gives the language in
\* 0x-prefixed hexadecimal followed by the codepage written 0x4b0.
C7_LanguageLines_0x4b0 ==
    result = "Ok" =>
        /\ BlockKeyAsClaimed
        /\ Len(LinesOfKind(file[1], "translation")) = 1
        /\ LinesOfKind(file[1], "translation")[1].text
             = "VALUE \"Translation\", " \o ExpectedHexAlt(RenderedLanguage) \o ", 0x4b0"

\* C7 as amended: the same, with the codepage written 0x04b0 (language 0x0409:
\* key 040904b0 and translation 0x409, 0x04b0; neutral: 0x0, 0x04b0).
C7_LanguageLines_0x04b0 ==
    result = "Ok" =>
        /\ BlockKeyAsClaimed
        /\ Len(LinesOfKind(file[1], "translation")) = 1
        /\ LinesOfKind(file[1], "translation")[1].text
             = "VALUE \"Translation\", " \o ExpectedHexAlt(RenderedLanguage) \o ", 0x04b0"

\* A file written after set_language(0x0409).
C7_Witness ==
    /\ result = "Ok"
    /\ RenderedLanguage = 1033
    /\ LinesOfKind(file[1], "block_key")[1].text = "{\nBLOCK \"040904b0\"\n{"
    /\ LinesOfKind(file[1], "translation")[1].text = "VALUE \"Translation\", 0x409, 0x04b0"

(***************************************************************************)
(* SpecRender: descriptors constructed in the same environment, configured *)
(* and written.                                                            *)
(***************************************************************************)
\* WindowsResource::new called again: the descriptor is a new one, its maps
\* created with their own hash seeds.
call_new(ps, vs) ==
    /\ Step
    /\ new_returns(env)
    /\ toolkit_path' = default_toolkit_path(env)
    /\ properties' = parse_cargo_toml(default_properties(env), env.winres)
    /\ props_seed' = ps
    /\ version_info' = default_version_info(
           pack_version(env.CARGO_PKG_VERSION_MAJOR, env.CARGO_PKG_VERSION_MINOR,
                        env.CARGO_PKG_VERSION_PATCH))
    /\ version_seed' = vs
    /\ rc_file' = None
    /\ icons' = <<>>
    /\ language' = 0
    /\ manifest' = None
    /\ manifest_file' = None
    /\ output_directory' = IF env.OUT_DIR # None THEN env.OUT_DIR[1] ELSE <<".">>
    /\ windres_path' = IF env.target = "unix" THEN <<"windres">> ELSE <<"windres.exe">>
    /\ ar_path' = IF env.target = "unix" THEN <<"ar">> ELSE <<"ar.exe">>
    /\ add_toolkit_include' = FALSE
    /\ append_rc_content' = <<>>
    /\ UNCHANGED <<file, result, rendered_from, string, escaped, build, probe, env>>

NextRender ==
    \/ \E ps \in 0..MaxSeed, vs \in 0..MaxSeed : call_new(ps, vs)
    \/ \E v \in {<<>>, <<"c">>} : set(<<"Comments">>, v)
    \/ set_language(1033)
    \/ \E fail_at \in {None, Some(0)} : write_resource_file(fail_at)

SpecRender == Init /\ [][NextRender]_vars

\* C8: a write without failure from a descriptor whose field values equal
\* those the file was last written from writes the same text again.
C8_Deterministic ==
    [][ (/\ \E fail_at \in {None, Some(0)} : write_resource_file(fail_at)
         /\ result = "Ok" /\ result' = "Ok"
         /\ rendered_from = Some(fields))
        => Text(file'[1]) = Text(file[1]) ]_vars

(***************************************************************************)
(* SpecIcons: icons added by set_icon and set_icon_with_id, and written.   *)
(***************************************************************************)
IconPaths == {<<"icon.ico">>, <<"C:", "\\", "my", " ", "icon.ico">>}
IconIds == {<<"1">>, <<"my", "\"", "id">>}

InitIcons == \E ps \in 0..MaxSeed : new(DemoEnv, ps, 0) /\ Fresh /\ NoInput

NextIcons ==
    \/ \E path \in IconPaths : set_icon(path)
    \/ \E path \in IconPaths, name_id \in IconIds : set_icon_with_id(path, name_id)
    \/ \E fail_at \in {None, Some(0)} : write_resource_file(fail_at)

SpecIcons == InitIcons /\ [][NextIcons]_vars

\* The icons the file was last written with.
RenderedIcons == rendered_from[1][5]

\* The ICON line of an icon: escaped name id, ICON, escaped path in quotes.
ExpectedIconLine(icon) ==
    Cat(Images(icon.name_id)) \o " ICON \"" \o Cat(Images(icon.path)) \o "\""

\* The ICON lines of a written file are those of the icons it was written
\* with, one per icon, in the order of the list.
IconLinesInOrder ==
    result = "Ok" =>
        Text(LinesOfKind(file[1], "icon"))
          = [i \in 1..Len(RenderedIcons) |-> ExpectedIconLine(RenderedIcons[i])]

\* C9: the icon list is empty after new(); every set_icon(path) appends
\* (path, "1") and every set_icon_with_id(path, id) appends (path, id) to it,
\* whatever it holds, and nothing else changes it; a file written without
\* failure holds one ICON line per entry, in order, with that entry's escaped
\* name id and path.
C9_IconLines ==
    /\ icons = <<>>
    /\ [][ /\ \A path \in IconPaths :
                set_icon(path) => icons' = Append(icons, [path |-> path, name_id |-> <<"1">>])
           /\ \A path \in IconPaths, name_id \in IconIds :
                set_icon_with_id(path, name_id)
                  => icons' = Append(icons, [path |-> path, name_id |-> name_id])
           /\ ((\E fail_at \in {None, Some(0)} : write_resource_file(fail_at))
                  => icons' = icons)
           /\ IconLinesInOrder'
         ]_vars

\* A file written with two icons of name id 1: two ICON lines, in call order.
C9_Witness ==
    /\ result = "Ok"
    /\ RenderedIcons = <<[path |-> <<"C:", "\\", "my", " ", "icon.ico">>, name_id |-> <<"1">>],
                         [path |-> <<"icon.ico">>, name_id |-> <<"1">>]>>
    /\ Text(LinesOfKind(file[1], "icon"))
         = <<"1 ICON \"C:\\\\my icon.ico\"", "1 ICON \"icon.ico\"">>

(***************************************************************************)
(* SpecProps: string properties set by set, and written.                   *)
(***************************************************************************)
PropNames == {ProductName, <<"Comments">>, <<"My", "\"", "Key">>}
PropValues == {<<>>, <<"x">>, <<"a", "\\", "b">>}

InitProps == \E ps \in 0..MaxSeed : new(DemoEnv, ps, 0) /\ Fresh /\ NoInput

NextProps ==
    \/ \E name \in PropNames, value \in PropValues : set(name, value)
    \/ \E fail_at \in {None, Some(0)} : write_resource_file(fail_at)

SpecProps == InitProps /\ [][NextProps]_vars

\* The properties the file was last written with.
RenderedProperties == rendered_from[1][2]

\* The VALUE lines written for property k.
ValueLinesOf(f, k) == SelectSeq(f, LAMBDA c : c.kind = "value" /\ c.of = k)

\* A written file holds, for each property, one VALUE line (escaped name and
\* value) when the value is not empty and none when it is, and no other
\* VALUE line.
ValueLinesAsSet ==
    result = "Ok" =>
        /\ \A k \in DOMAIN RenderedProperties :
              IF RenderedProperties[k] # <<>>
              THEN Text(ValueLinesOf(file[1], k))
                     = <<"VALUE \"" \o Cat(Images(k)) \o "\", \""
                           \o Cat(Images(RenderedProperties[k])) \o "\"">>
              ELSE ValueLinesOf(file[1], k) = <<>>
        /\ Len(LinesOfKind(file[1], "value"))
             = Cardinality({k \in DOMAIN RenderedProperties : RenderedProperties[k] # <<>>})

\* C10: set(name, value) makes value the value of name and changes no other
\* property, and nothing else changes the properties, so each name holds the
\* value of the last set call for it; a file written without failure holds
\* one VALUE line per property with a non-empty value and none for a
\* property whose value is empty.
C10_LastValueWritten ==
    [][ /\ \A name \in PropNames, value \in PropValues :
             set(name, value) =>
                 /\ DOMAIN properties' = DOMAIN properties \cup {name}
                 /\ properties'[name] = value
                 /\ \A k \in DOMAIN properties \ {name} : properties'[k] = properties[k]
        /\ ((\E fail_at \in {None, Some(0)} : write_resource_file(fail_at))
               => properties' = properties)
        /\ ValueLinesAsSet'
      ]_vars

\* A file written after ProductName (seeded "demo") was set to "x" and
\* Comments to the empty string: the one line, none for Comments.
C10_Witness ==
    /\ result = "Ok"
    /\ RenderedProperties[ProductName] = <<"x">>
    /\ <<"Comments">> \in DOMAIN RenderedProperties
    /\ RenderedProperties[<<"Comments">>] = <<>>
    /\ Text(ValueLinesOf(file[1], ProductName)) = <<"VALUE \"ProductName\", \"x\"">>
    /\ ValueLinesOf(file[1], <<"Comments">>) = <<>>
    /\ Len(LinesOfKind(file[1], "value")) = 4

(***************************************************************************)
(* SpecCompile: compile called on a descriptor, with or without a resource *)
(* file of the caller's, for several target environments.                  *)
(***************************************************************************)
\* Values of CARGO_CFG_TARGET_ENV.
TargetEnvs == {"gnu", "msvc", "musl", "GNU", ""}

\* The unix host of DemoEnv, building for target environment t.
CompileEnv(t) == [DemoEnv EXCEPT !.CARGO_CFG_TARGET_ENV = t]

\* Two lines of registry output for a kit at C:\K10.
KitsRoot10 == <<"HKEY_LOCAL_MACHINE", "\\", "Installed", " ", "Roots", "\r", "\n",
                " ", " ", "KitsRoot", "10", " ", " ", "REG_SZ", " ", " ",
                "C:", "\\", "K10", "\\", "\r", "\n">>

\* A windows host with the msvc toolchain and version 10.0.1 of that kit.
MsvcEnv ==
    [Env(<<"demo">>, <<"1.0.0">>, 1, 0, 0, EmptyMap, Some(<<"out">>), "msvc", Some(KitsRoot10))
       EXCEPT !.rc_exe = {<<"C:", "\\", "K10", "\\", "bin", "\\", "10.", "0.1", "\\",
                            "x64", "\\", "rc.exe">>},
              !.dirs = Insert(EmptyMap, <<"C:", "\\", "K10", "\\", "bin">>,
                              << <<"10.", "0.1">> >>)]

OutputDirs == {<<".">>, <<"target", "/", "res", "/">>}

InitCompile ==
    /\ \E e \in {CompileEnv(t) : t \in TargetEnvs} \cup {MsvcEnv} : new(e, 0, 0)
    /\ Fresh /\ NoInput

NextCompile ==
    \/ set_resource_file(<<"my.rc">>)
    \/ \E d \in OutputDirs : set_output_directory(d)
    \/ call_add_toolkit_include(TRUE)
    \/ \E fail_at \in IoOutcomes, rc_out \in Outcomes, ar_out \in Outcomes :
          compile(fail_at, rc_out, ar_out)

SpecCompile == InitCompile /\ [][NextCompile]_vars

\* Some call of compile is made.
Compiles ==
    \E fail_at \in IoOutcomes, rc_out \in Outcomes, ar_out \in Outcomes :
        compile(fail_at, rc_out, ar_out)

EventsOfKind(ev, kind) == SelectSeq(ev, LAMBDA x : x.kind = kind)

\* The position of the first event of the kind in ev, 0 without one.
FirstOfKind(ev, kind) ==
    IF \E i \in 1..Len(ev) : ev[i].kind = kind
    THEN CHOOSE i \in 1..Len(ev) : ev[i].kind = kind /\ \A j \in 1..(i - 1) : ev[j].kind # kind
    ELSE 0

\* The resource file given to the resource compiler by a call that launched
\* it: windres takes it as its second argument, rc.exe as its last.
CompilerInput(ev) ==
    LET c == EventsOfKind(ev, "spawn")[1]
    IN  IF env.CARGO_CFG_TARGET_ENV = "gnu" THEN c.args[2] ELSE c.args[Len(c.args)]

\* resource.rc inside the output directories of the model.
ExpectedResourceRc ==
    CASE output_directory = <<"out">> /\ Host(env) = "unix"     -> "out/resource.rc"
      [] output_directory = <<"out">> /\ Host(env) = "windows"  -> "out\\resource.rc"
      [] output_directory = <<".">> /\ Host(env) = "unix"       -> "./resource.rc"
      [] output_directory = <<".">> /\ Host(env) = "windows"    -> ".\\resource.rc"
      [] output_directory = <<"target", "/", "res", "/">>       -> "target/res/resource.rc"

\* C11: a call of compile on a descriptor with a resource file of the
\* caller's writes no file (no file is created, the written file is left as
\* it is) and gives the resource compiler, when it launches it, the caller's
\* path as it is; a call on a descriptor without one first creates
\* resource.rc in the output directory, launches a command only after the
\* file was written without failure, and gives the resource compiler that
\* path.
C11_ResourceFileBypass ==
    [][ Compiles =>
          IF rc_file # None
          THEN /\ UNCHANGED <<file, result, rendered_from>>
               /\ EventsOfKind(events', "create") = <<>>
               /\ EventsOfKind(events', "spawn") # <<>>
                    => CompilerInput(events') = Cat(rc_file[1])
          ELSE /\ events'[1].kind = "create"
               /\ events'[1].what = ExpectedResourceRc
               /\ Len(EventsOfKind(events', "create")) = 1
               /\ EventsOfKind(events', "spawn") # <<>>
                    => /\ result' = "Ok"
                       /\ file' = Some(rendering)
                       /\ FirstOfKind(events', "spawn") > 1
                       /\ CompilerInput(events') = ExpectedResourceRc
      ]_vars

\* compile succeeded on a descriptor with the caller's resource file my.rc:
\* no file was ever written and windres was given my.rc.
C11_Witness ==
    /\ compiled = "Ok"
    /\ rc_file = Some(<<"my.rc">>)
    /\ file = None
    /\ EventsOfKind(events, "create") = <<>>
    /\ EventsOfKind(events, "spawn")[1].args[2] = "my.rc"

\* The events of a call after the creation of resource.rc.
AfterCreate(ev) == SelectSeq(ev, LAMBDA x : x.kind # "create")

\* The file was written, or did not have to be.
ResourceFileReady(ev) ==
    \A i \in 1..Len(ev) : ev[i].kind = "create" => ev[i].status = "ok" /\ result' = "Ok"

\* C12: a call of compile with a target environment other than "gnu" and
\* "msvc" returns an error, launches no command and prints nothing; a call
\* launches a command only with one of the two, and with one of the two it
\* launches the resource compiler whenever the resource file is ready.
C12_UnknownToolchain ==
    [][ Compiles =>
          /\ env.CARGO_CFG_TARGET_ENV \notin {"gnu", "msvc"}
               => /\ compiled' = "Err"
                  /\ EventsOfKind(events', "spawn") = <<>>
                  /\ EventsOfKind(events', "println") = <<>>
          /\ EventsOfKind(events', "spawn") # <<>>
               => env.CARGO_CFG_TARGET_ENV \in {"gnu", "msvc"}
          /\ env.CARGO_CFG_TARGET_ENV \in {"gnu", "msvc"} /\ ResourceFileReady(events')
               => EventsOfKind(events', "spawn") # <<>>
      ]_vars

\* compile for target environment musl: resource.rc was written, nothing was
\* launched or printed, and the call returned an error.
C12_Witness ==
    /\ env.CARGO_CFG_TARGET_ENV = "musl"
    /\ compiled = "Err"
    /\ result = "Ok"
    /\ Len(events) = 1
    /\ events[1].kind = "create" /\ events[1].status = "ok"

\* C13: in a call of compile for the gnu target environment the events after
\* the file's creation are, in this order, windres, ar, the lines printed:
\* ar is launched, once, only after windres exited with status 0; a line is
\* printed only after ar exited with status 0; a command that cannot be
\* launched or exits with another status is the call's last event and the
\* call returns an error.
C13_GnuOrder ==
    [][ Compiles /\ env.CARGO_CFG_TARGET_ENV = "gnu" =>
          LET ev == AfterCreate(events')
          IN  /\ ev # <<>> => /\ ev[1].kind = "spawn"
                              /\ ev[1].what = Cat(windres_path)
                              /\ ev[1].cwd = Cat(toolkit_path)
              /\ \A i \in 2..Len(ev) :
                    ev[i].kind = "spawn"
                      => /\ i = 2
                         /\ ev[1].status = "exit_ok"
                         /\ ev[2].what = Cat(ar_path)
                         /\ ev[2].args[1] = "rsc"
              /\ \A i \in 1..Len(ev) :
                    ev[i].kind = "println"
                      => /\ i >= 3
                         /\ ev[2].kind = "spawn" /\ ev[2].status = "exit_ok"
              /\ \A i \in 1..Len(ev) :
                    ev[i].kind = "spawn" /\ ev[i].status # "exit_ok"
                      => i = Len(ev) /\ compiled' = "Err"
              /\ compiled' = "Ok" => Len(ev) = 4
      ]_vars

\* windres exited with status 0, then ar with another status: nothing came
\* after it and compile returned an error.
C13_Witness ==
    /\ env.CARGO_CFG_TARGET_ENV = "gnu"
    /\ compiled = "Err"
    /\ Len(AfterCreate(events)) = 2
    /\ AfterCreate(events)[1].what = "windres" /\ AfterCreate(events)[1].status = "exit_ok"
    /\ AfterCreate(events)[2].what = "ar" /\ AfterCreate(events)[2].status = "exit_fail"

\* The lines of a call that cargo reads: those that start with cargo:.
LinkLines(ev) ==
    SelectSeq(ev, LAMBDA x : x.kind = "println"
                             /\ x.what \notin {"Selected RC path: '{}'",
                                               "Adding toolkit include: {}",
                                               "RC Output:\n{}\n------",
                                               "RC Error:\n{}\n------"})

\* C14: a call of compile returns success or an error; when it returns
\* success its last two events are the link-search line of the output
\* directory and the link-lib line of resource, static for gnu and dylib for
\* msvc, and it prints no other line for cargo; when it returns an error it
\* prints no line for cargo.
C14_LinkLinesIffSuccess ==
    [][ Compiles =>
          LET links == LinkLines(events')
              n == Len(events')
          IN  /\ compiled' \in {"Ok", "Err"}
              /\ compiled' = "Err" => links = <<>>
              /\ compiled' = "Ok"
                   => /\ Len(links) = 2
                      /\ events'[n - 1] = links[1] /\ events'[n] = links[2]
                      /\ links[1].what = "cargo:rustc-link-search=native={}"
                      /\ links[1].args = <<Cat(output_directory)>>
                      /\ links[2].what =
                           (IF env.CARGO_CFG_TARGET_ENV = "gnu"
                            THEN "cargo:rustc-link-lib=static=resource"
                            ELSE "cargo:rustc-link-lib=dylib=resource")
                      /\ env.CARGO_CFG_TARGET_ENV \in {"gnu", "msvc"}
                      /\ \A i \in 1..n : events'[i].status \notin {"err", "launch_err", "exit_fail"}
      ]_vars

\* compile succeeded for msvc with the toolkit include added: rc.exe of the
\* kit was run and the two lines name the output directory and dylib.
C14_Witness ==
    /\ env.CARGO_CFG_TARGET_ENV = "msvc"
    /\ compiled = "Ok"
    /\ add_toolkit_include
    /\ EventsOfKind(events, "spawn")[1].what = "C:\\K10\\bin\\10.0.1\\x64\\rc.exe"
    /\ "/IC:\\K10\\Include\\10.0.1\\um" \in
          {EventsOfKind(events, "spawn")[1].args[i] : i \in 1..5}
    /\ LinkLines(events)[1].args = <<"out">>
    /\ LinkLines(events)[2].what = "cargo:rustc-link-lib=dylib=resource"

(***************************************************************************)
(* SpecSeed: descriptors constructed by new() for packages with and        *)
(* without a description and a [package.metadata.winres] table.            *)
(***************************************************************************)
Descriptions == {<<>>, <<"demo">>, <<"A", " ", "demo">>}

\* [package.metadata.winres] tables: none (or Cargo.toml does not parse: the
\* same for new()), one with string entries only, one with an entry that is
\* not a string besides one that overrides a seeded property.
WinresTables ==
    {EmptyMap,
     Insert(Insert(EmptyMap, <<"OriginalFilename">>, [is_str |-> TRUE, val |-> <<"demo.exe">>]),
            FileDescription, [is_str |-> TRUE, val |-> <<"from", " ", "toml">>]),
     Insert(Insert(EmptyMap, <<"LegalCopyright">>, [is_str |-> FALSE, val |-> <<"2016">>]),
            ProductName, [is_str |-> TRUE, val |-> <<"Demo">>])}

SeedEnv(description, table) ==
    [Env(<<"demo">>, <<"1.0.0">>, 1, 0, 0, table, Some(<<"out">>), "unix", None)
       EXCEPT !.CARGO_PKG_DESCRIPTION = description]

InitSeed ==
    /\ \E d \in Descriptions, t \in WinresTables, ps \in 0..MaxSeed :
          new(SeedEnv(d, t), ps, 0)
    /\ Fresh /\ NoInput

NextSeed ==
    \/ \E ps \in 0..MaxSeed : call_new(ps, 0)
    \/ \E v \in {<<>>, <<"c">>} : set(FileDescription, v)
    \/ \E fail_at \in {None, Some(0)} : write_resource_file(fail_at)

SpecSeed == InitSeed /\ [][NextSeed]_vars

\* What the claim seeds a property with.
SeededAsClaimed(k) ==
    CASE k = FileVersion     -> env.CARGO_PKG_VERSION
      [] k = ProductVersion  -> env.CARGO_PKG_VERSION
      [] k = ProductName     -> env.CARGO_PKG_NAME
      [] k = FileDescription -> env.CARGO_PKG_DESCRIPTION

\* The names of the string entries of the winres table.
StringEntries == {k \in DOMAIN env.winres : env.winres[k].is_str}

\* C15: the properties of the descriptor new() returns are the four seeded
\* ones (FileVersion and ProductVersion the package version, ProductName the
\* package name, FileDescription the package description) and the string
\* entries of the winres table, an entry of the table taking precedence over
\* a seeded value; entries that are not strings are not among them.
C15_SeededProperties ==
    steps = 0 =>
        /\ DOMAIN properties
             = {FileVersion, ProductVersion, ProductName, FileDescription} \cup StringEntries
        /\ \A k \in DOMAIN properties :
              properties[k] = IF k \in StringEntries THEN env.winres[k].val
                              ELSE SeededAsClaimed(k)

(***************************************************************************)
(* C16: the mutators, under Spec.                                          *)
(***************************************************************************)
\* The fields of the descriptor but those numbered in `changed` (the numbers
\* are the positions in `fields`) are as they were.
Untouched(changed) == \A i \in (1..Len(fields)) \ changed : fields'[i] = fields[i]

\* The descriptor is the same one: its maps are the same maps, and nothing
\* was written or compiled.
SameDescriptor == UNCHANGED <<props_seed, version_seed, file, result, rendered_from, build>>

\* The seven version fields and the four seeded properties are present.
KeysPresent ==
    /\ {VersionInfo[i] : i \in 1..Len(VersionInfo)} \subseteq DOMAIN version_info
    /\ {FileVersion, ProductVersion, ProductName, FileDescription} \subseteq DOMAIN properties

\* Every mutator can be called.
MutatorsSucceed ==
    /\ ENABLED set(<<"Comments">>, <<"c">>)
    /\ ENABLED set_toolkit_path(<<"/usr/x86_64-w64-mingw32/bin">>)
    /\ ENABLED set_language(1033)
    /\ ENABLED set_icon(<<"icon.ico">>)
    /\ ENABLED set_icon_with_id(<<"icon2.ico">>, <<"2">>)
    /\ ENABLED set_version_info("FILETYPE", U64(0, 0, 0, 2))
    /\ ENABLED set_manifest(Manifest1)
    /\ ENABLED set_manifest_file(<<"manifest.xml">>)
    /\ ENABLED set_windres_path(<<"/usr/bin/x86_64-w64-mingw32-windres">>)
    /\ ENABLED set_ar_path(<<"x86_64-w64-mingw32-ar">>)
    /\ ENABLED call_add_toolkit_include(TRUE)
    /\ ENABLED set_resource_file(<<"my.rc">>)
    /\ ENABLED call_append_rc_content(<<"sample", " ", "MENU">>)
    /\ ENABLED set_output_directory(<<".">>)

\* C16: every mutator can be called in every state (within the number of
\* calls the model makes), gives its field(s) the value it was called with,
\* leaves every other field and the descriptor's identity as they were, and
\* the seven version fields and the four seeded properties stay present.
C16_MutatorsFrame ==
    /\ KeysPresent
    /\ (steps < MaxSteps => MutatorsSucceed)
    /\ [][ /\ KeysPresent'
           /\ (steps' < MaxSteps => MutatorsSucceed')
           /\ set(<<"Comments">>, <<"c">>)
                => /\ Untouched({2}) /\ SameDescriptor
                   /\ properties'[<<"Comments">>] = <<"c">>
                   /\ \A k \in DOMAIN properties \ {<<"Comments">>} :
                         k \in DOMAIN properties' /\ properties'[k] = properties[k]
           /\ set_toolkit_path(<<"/usr/x86_64-w64-mingw32/bin">>)
                => /\ Untouched({1}) /\ SameDescriptor
                   /\ toolkit_path' = <<"/usr/x86_64-w64-mingw32/bin">>
           /\ set_language(1033)
                => Untouched({6}) /\ SameDescriptor /\ language' = 1033
           /\ set_icon(<<"icon.ico">>)
                => /\ Untouched({5}) /\ SameDescriptor
                   /\ SubSeq(icons', 1, Len(icons)) = icons
                   /\ Len(icons') = Len(icons) + 1
           /\ set_icon_with_id(<<"icon2.ico">>, <<"2">>)
                => /\ Untouched({5}) /\ SameDescriptor
                   /\ SubSeq(icons', 1, Len(icons)) = icons
                   /\ Len(icons') = Len(icons) + 1
           /\ set_version_info("FILETYPE", U64(0, 0, 0, 2))
                => /\ Untouched({3}) /\ SameDescriptor
                   /\ version_info'["FILETYPE"] = U64(0, 0, 0, 2)
                   /\ \A k \in DOMAIN version_info \ {"FILETYPE"} :
                         k \in DOMAIN version_info' /\ version_info'[k] = version_info[k]
           /\ set_manifest(Manifest1)
                => Untouched({7, 8}) /\ SameDescriptor /\ manifest' = Some(Manifest1)
           /\ set_manifest_file(<<"manifest.xml">>)
                => /\ Untouched({7, 8}) /\ SameDescriptor
                   /\ manifest_file' = Some(<<"manifest.xml">>)
           /\ set_windres_path(<<"/usr/bin/x86_64-w64-mingw32-windres">>)
                => /\ Untouched({10}) /\ SameDescriptor
                   /\ windres_path' = <<"/usr/bin/x86_64-w64-mingw32-windres">>
           /\ set_ar_path(<<"x86_64-w64-mingw32-ar">>)
                => /\ Untouched({11}) /\ SameDescriptor
                   /\ ar_path' = <<"x86_64-w64-mingw32-ar">>
           /\ call_add_toolkit_include(TRUE)
                => Untouched({12}) /\ SameDescriptor /\ add_toolkit_include'
           /\ set_resource_file(<<"my.rc">>)
                => Untouched({4}) /\ SameDescriptor /\ rc_file' = Some(<<"my.rc">>)
           /\ call_append_rc_content(<<"sample", " ", "MENU">>)
                => Untouched({13}) /\ SameDescriptor
           /\ set_output_directory(<<".">>)
                => Untouched({9}) /\ SameDescriptor /\ output_directory' = <<".">>
         ]_vars

\* Three mutators were called, one after the other, on the descriptor new()
\* returned: each of their fields holds what it was given, and the fields of
\* no other are changed.
C16_Witness ==
    /\ steps = 3
    /\ version_info["FILETYPE"] = U64(0, 0, 0, 2)
    /\ version_info["FILEOS"] = U64(0, 0, 4, 4)
    /\ rc_file = Some(<<"my.rc">>)
    /\ append_rc_content = <<"sample", " ", "MENU">>
    /\ properties[ProductName] = <<"demo">>
    /\ toolkit_path = <<"/">> /\ language = 0 /\ icons = <<>>
    /\ manifest = None /\ manifest_file = None
    /\ output_directory = <<"out">>
    /\ file = None

(***************************************************************************)
(* SpecSdk: get_sdk called for registry outputs and file systems, and      *)
(* new() on msvc hosts.                                                    *)
(***************************************************************************)
\* Lines of registry output: the key, the values of two kits (the first
\* with, the second without a separator at its end), a value that is no kit
\* and a kit value that is not a string.
KeyLine == <<"HKEY_LOCAL_MACHINE", "\\", "Installed", " ", "Roots">>
Kit10Line == <<" ", " ", "KitsRoot", "10", " ", " ", "REG_SZ", " ", " ",
               "C:", "\\", "K10", "\\">>
Kit81Line == <<"\t", "KitsRoot", "81", "\t", "REG_SZ", "\t", "C:", "\\", "K81">>
OtherLine == <<" ", " ", "Other", "KitsRoot", " ", "REG_SZ", " ", "C:", "\\", "Other">>
ExpandLine == <<" ", " ", "KitsRoot", "X", " ", "REG_EXPAND_SZ", " ", "%K%">>

ValueLines == {Kit10Line, Kit81Line, OtherLine, ExpandLine}

RECURSIVE RegText(_)
\* The output of the query: each line ended by \r\n.
RegText(lines) ==
    IF lines = <<>> THEN <<>> ELSE lines[1] \o <<"\r", "\n">> \o RegText(Tail(lines))

\* The outputs of the model: the key line and at most MaxLen - 1 value lines,
\* no line twice.
RegOutputs ==
    {RegText(<<KeyLine>> \o ls) :
        ls \in {l \in SeqSet(ValueLines, MaxLen - 1) :
                   \A i, j \in 1..Len(l) : i # j => l[i] # l[j]}}

RcExe(dir) == dir \o <<"\\", "rc.exe">>

\* File systems: none of the kits is installed; K10 holds two versions and
\* an empty bin\x64, K81 rc.exe in bin\x64, and Other looks like a kit; K10
\* holds rc.exe in bin\x64 and in one version and K81 has no bin; only x86
\* compilers are installed.
FileSystems ==
    {[rc_exe |-> {}, dirs |-> EmptyMap],
     [rc_exe |-> {RcExe(<<"C:", "\\", "K10", "\\", "bin", "\\", "10.", "0.2", "\\", "x64">>),
                  RcExe(<<"C:", "\\", "K10", "\\", "bin", "\\", "10.", "0.1", "\\", "x64">>),
                  RcExe(<<"C:", "\\", "K81", "\\", "bin", "\\", "x64">>),
                  RcExe(<<"C:", "\\", "Other", "\\", "bin", "\\", "x64">>)},
      dirs |-> Insert(Insert(Insert(EmptyMap,
                 <<"C:", "\\", "K10", "\\", "bin">>,
                    << <<"10.", "0.2">>, <<"x64">>, <<"10.", "0.1">> >>),
                 <<"C:", "\\", "K81", "\\", "bin">>, << <<"x64">>, <<"x86">> >>),
                 <<"C:", "\\", "Other", "\\", "bin">>, << <<"x64">> >>)],
     [rc_exe |-> {RcExe(<<"C:", "\\", "K10", "\\", "bin", "\\", "x64">>),
                  RcExe(<<"C:", "\\", "K10", "\\", "bin", "\\", "10.", "0.1", "\\", "x64">>),
                  RcExe(<<"C:", "\\", "K10", "\\", "bin", "\\", "10.", "0.3", "\\", "x64">>)},
      dirs |-> Insert(EmptyMap, <<"C:", "\\", "K10", "\\", "bin">>,
                      << <<"x64">>, <<"10.", "0.1">> >>)],
     [rc_exe |-> {RcExe(<<"C:", "\\", "K10", "\\", "bin", "\\", "x86">>),
                  RcExe(<<"C:", "\\", "K81", "\\", "bin", "\\", "8.1", "\\", "x86">>)},
      dirs |-> Insert(Insert(EmptyMap,
                 <<"C:", "\\", "K10", "\\", "bin">>, << <<"x86">> >>),
                 <<"C:", "\\", "K81", "\\", "bin">>, << <<"8.1">> >>)]}

\* An msvc host with the registry output reg (None: the query fails) and the
\* file system fs.
SdkEnv(reg, fs) ==
    [Env(<<"demo">>, <<"1.0.0">>, 1, 0, 0, EmptyMap, Some(<<"out">>), "msvc", reg)
       EXCEPT !.rc_exe = fs.rc_exe, !.dirs = fs.dirs]

SdkEnvs == {SdkEnv(reg, fs) : reg \in {None} \cup {Some(o) : o \in RegOutputs},
                              fs \in FileSystems}

\* get_sdk called, once, in environment e.
call_get_sdk(e) ==
    /\ Step
    /\ kits = None
    /\ kits' = Some([of |-> e, result |-> get_sdk(e)])
    /\ UNCHANGED <<desc, file, result, rendered_from, string, escaped, build,
                   compiler, include_root, env>>

\* The hosts new() is called on: the query fails, one kit, two kits.
SdkHosts ==
    {e \in SdkEnvs :
        e.reg \in {None, Some(RegText(<<KeyLine, Kit10Line>>)),
                   Some(RegText(<<KeyLine, Kit81Line, Kit10Line>>))}}

InitSdk ==
    /\ \E e \in SdkHosts : new(e, 0, 0)
    /\ Fresh /\ NoInput

NextSdk ==
    \/ \E e \in SdkEnvs : call_get_sdk(e)
    \/ call_new(0, 0)
    \/ set_toolkit_path(<<"C:", "\\", "my", "\\", "sdk">>)

SpecSdk == InitSdk /\ [][NextSdk]_vars

\* The value lines of the registry output get_sdk was called with.
LinesGiven(e) ==
    IF e.reg = None THEN <<>>
    ELSE CHOOSE ls \in SeqSet(ValueLines, MaxLen) : RegText(<<KeyLine>> \o ls) = e.reg[1]

\* The kit a value line names, as text; "" for a line that names none.
RootOfLine(line) ==
    CASE line = Kit10Line -> "C:\\K10"
      [] line = Kit81Line -> "C:\\K81"
      [] OTHER            -> ""

\* The rc.exe files of a file system and the entries of a directory, as text.
Files(e) == {Cat(f) : f \in e.rc_exe}
Entries(e, dir) ==
    UNION {{Cat(e.dirs[d][i]) : i \in 1..Len(e.dirs[d])} : d \in {x \in DOMAIN e.dirs : Cat(x) = dir}}

\* The directories of a kit in which an x64 rc.exe exists: bin\x64, and
\* bin\<entry>\x64 for the entries of bin.
DirectDir(root) == root \o "\\bin\\x64"
VersionDirs(e, root) == {root \o "\\bin\\" \o v \o "\\x64" : v \in Entries(e, root \o "\\bin")}
FoundDirs(e, root) ==
    {d \in {DirectDir(root)} \cup VersionDirs(e, root) : (d \o "\\rc.exe") \in Files(e)}

\* The numbers of the value lines that name a kit.
KitLines(e) == {i \in 1..Len(LinesGiven(e)) : RootOfLine(LinesGiven(e)[i]) # ""}

\* Everything there is to find for the call.
AllFound(e) == UNION {FoundDirs(e, RootOfLine(LinesGiven(e)[i])) : i \in KitLines(e)}

\* The number of the line whose kit holds directory d.
LineOf(e, d) == CHOOSE i \in KitLines(e) : d \in FoundDirs(e, RootOfLine(LinesGiven(e)[i]))

\* The list returned holds the directories there are to find and no other,
\* those of a later line before those of an earlier line and bin\x64 of a kit
\* before its other directories.
ListAsClaimed(e, list) ==
    LET t == [i \in 1..Len(list) |-> Cat(list[i])]
    IN  /\ {t[i] : i \in 1..Len(t)} = AllFound(e)
        /\ \A i, j \in 1..Len(t) :
              i < j => /\ LineOf(e, t[i]) >= LineOf(e, t[j])
                       /\ t[i] # t[j]
                       /\ LineOf(e, t[i]) = LineOf(e, t[j])
                            => t[j] # DirectDir(RootOfLine(LinesGiven(e)[LineOf(e, t[j])]))

\* new() took the last directory get_sdk found, or the empty path.
NewTookLast ==
    steps = 0 /\ env.target = "msvc" =>
        toolkit_path = IF get_sdk(env).status = "Ok"
                       THEN get_sdk(env).value[Len(get_sdk(env).value)] ELSE <<>>

\* C17: get_sdk returns a list or an error; a list it returns is as claimed;
\* it returns an error when the query fails and when there is nothing to
\* find; new() takes the last element of the list.
C17_SdkDiscovery ==
    /\ NewTookLast
    /\ kits # None =>
         LET e == kits[1].of
             r == kits[1].result
         IN  /\ r.status = "Ok" => r.value # <<>> /\ ListAsClaimed(e, r.value)
             /\ (e.reg = None \/ AllFound(e) = {}) => r.status = "Err"

\* get_sdk was called with an output whose only value line is a kit value of
\* type REG_EXPAND_SZ: there is nothing to find, and the call did not return.
C17_Witness ==
    /\ kits # None
    /\ kits[1].of.reg = Some(RegText(<<KeyLine, ExpandLine>>))
    /\ AllFound(kits[1].of) = {}
    /\ kits[1].result.status = "panic"

(***************************************************************************)
(* SpecInclude: win_sdk_inlcude_root applied to compiler paths.            *)
(***************************************************************************)
\* Path components: bin, a version of kit 10, two that are no such version
\* (the second is a prefix of "10."), and a directory.
PathComponents == {<<"bin">>, <<"10.", "0.1">>, <<"x64">>, <<"10">>, <<"Kits">>}

RECURSIVE Joined(_, _)
\* The components, with the separator between them.
Joined(cs, sep) ==
    IF cs = <<>> THEN <<>>
    ELSE IF Len(cs) = 1 THEN cs[1]
    ELSE cs[1] \o <<sep>> \o Joined(Tail(cs), sep)

\* The paths of a host: at most MaxLen components, below the root of drive
\* C: (windows) or the root (unix), or relative; and the two paths of the
\* tests.
CompilerPaths(host) ==
    LET sep == MainSeparator(host)
        root == IF host = "windows" THEN <<"C:", "\\">> ELSE <<"/">>
    IN  {root \o Joined(cs, sep) : cs \in SeqSet(PathComponents, MaxLen)}
        \cup {Joined(cs, sep) : cs \in SeqSet(PathComponents, MaxLen - 1)}
        \cup {<<"C:", sep, "Program", " ", "Files", " ", "(x86)", sep, "Windows", " ", "Kits",
                sep, "10", sep, "bin", sep, "10.", "0.17763.0", sep, "x64", sep, "rc.exe">>,
              <<"C:", sep, "Program", " ", "Files", " ", "(x86)", sep, "Windows", " ", "Kits",
                sep, "8.1", sep, "bin", sep, "x86", sep, "rc.exe">>}

call_win_sdk_inlcude_root ==
    /\ include_root = None
    /\ include_root' = Some(win_sdk_inlcude_root(compiler, Host(env)))
    /\ UNCHANGED <<desc, file, result, rendered_from, string, escaped, build, kits,
                   compiler, env, steps>>

InitInclude ==
    /\ \E e \in {DemoEnv, MsvcEnv} : new(e, 0, 0) /\ compiler \in CompilerPaths(Host(e))
    /\ Fresh
    /\ string = <<>> /\ escaped = None
    /\ kits = None
    /\ include_root = None

NextInclude == call_win_sdk_inlcude_root

SpecInclude == InitInclude /\ [][NextInclude]_vars

\* The position of the first bin among the components, 0 without one.
FirstBin(cs) ==
    IF \E i \in 1..Len(cs) : cs[i] = <<"bin">>
    THEN CHOOSE i \in 1..Len(cs) : cs[i] = <<"bin">> /\ \A j \in 1..(i - 1) : cs[j] # <<"bin">>
    ELSE 0

\* The components claimed for a path with a component after its first bin.
IncludeRootAsClaimed(cs) ==
    SubSeq(cs, 1, FirstBin(cs) - 1) \o << <<"Include">> >>
      \o (IF cs[FirstBin(cs) + 1][1] = "10." THEN <<cs[FirstBin(cs) + 1]>> ELSE <<>>)

\* C18: win_sdk_inlcude_root returns a path for every path it is given; for
\* a path with a component after its first bin the path returned is made of
\* the components before that bin, Include and, if and only if it starts
\* with "10.", the component after bin (the paths of the two tests included).
C18_IncludeRoot ==
    include_root # None =>
        LET host == Host(env)
            cs == PathIter(compiler, host)
            r == include_root[1]
        IN  /\ r.status = "Ok"
            /\ (FirstBin(cs) > 0 /\ FirstBin(cs) < Len(cs))
                 => PathIter(r.value, host) = IncludeRootAsClaimed(cs)
            /\ Cat(compiler) = "C:\\Program Files (x86)\\Windows Kits\\10\\bin\\10.0.17763.0\\x64\\rc.exe"
                 => Cat(r.value) = "C:\\Program Files (x86)\\Windows Kits\\10\\Include\\10.0.17763.0"
            /\ Cat(compiler) = "C:\\Program Files (x86)\\Windows Kits\\8.1\\bin\\x86\\rc.exe"
                 => Cat(r.value) = "C:\\Program Files (x86)\\Windows Kits\\8.1\\Include"

\* win_sdk_inlcude_root was called with C:\Kits\bin, whose last component is
\* bin, and did not return.
C18_Witness ==
    /\ Host(env) = "windows"
    /\ compiler = <<"C:", "\\", "Kits", "\\", "bin">>
    /\ include_root # None
    /\ include_root[1].status = "panic"

====
